---- MODULE Spec2Model ----
(***************************************************************************)
(* Model of libekmfweb (src/libekmfweb/ekmfweb.c): the login token check,  *)
(* the transport request and the key retrieval pipeline.                   *)
(***************************************************************************)
EXTENDS Integers, Sequences, FiniteSets, TLC

\* errno values used by the library (returned negated)
EPERM == 1
ENOENT == 2
EIO == 5
ENOMEM == 12
EACCES == 13
EINVAL == 22
ERANGE == 34
EBADMSG == 74
ENOTSUP == 95
SHA256_DIGEST_LENGTH == 32
SHA512_DIGEST_LENGTH == 64
NID_sha256 == 672
NID_sha384 == 673
NID_sha512 == 674
NID_X9_62_prime256v1 == 415
NID_secp384r1 == 715
NID_secp521r1 == 716
EVP_PKEY_RSA == 6
EVP_PKEY_EC == 408
EVP_PKEY_RSA_PSS == 912
RSA_PSS_SALTLEN_DIGEST == -1
CURLE_FAILED_INIT == 2
CURLE_SSL_CACERT == 60

\* largest time stamp (seconds) of the clock and of the token claims
MaxTime == 2
MaxKeys == 2
MaxKeyLen == 2

VARIABLES
    now,            \* time(): the current time
    tokfile,        \* the file config->login_token names, and its JWT claims
    pc,             \* position of the running public operation
    op,             \* the public operation that runs or has returned
    arg,            \* the caller's arguments, as they were on entry
    rc,             \* the value the operation returned
    valid,          \* *valid / token_valid
    login_token,    \* *login_token
    curl_handle,    \* *curl_handle, the caller's CURL pointer
    curl,           \* the local CURL *curl
    error_msg,      \* *error_msg
    status_code,    \* the local status_code
    response_obj,   \* the local response_obj
    resp,           \* what the transport delivered in this call
    trace,          \* the collaborator calls this call has made, in order
    locals,         \* the key and request locals of ekmf_retrieve_key
    ghost,          \* the bytes and keys handed to the crypto collaborators
    key_blob,       \* the caller's key_blob buffer
    key_blob_length, \* *key_blob_length
    keygen          \* the number of key pairs the backend has generated

vars == <<now, tokfile, pc, op, arg, rc, valid, login_token, curl_handle,
          curl, error_msg, status_code, response_obj, resp, trace, locals,
          ghost, key_blob, key_blob_length, keygen>>

----------------------------------------------------------------------------
(* The login token file.                                                   *)

\* a claim of the JWT payload: absent, an integer, or of another JSON type
Claims ==
    {[kind |-> "absent", val |-> 0], [kind |-> "other", val |-> 0]}
        \cup {[kind |-> "int", val |-> v] : v \in 0..MaxTime}

NoClaim == [kind |-> "absent", val |-> 0]

\* "nopath": config->login_token == NULL; "missing": stat() fails;
\* "empty": st_size == 0; "unreadable": fopen() fails;
\* "unparsable": parse_json_web_token() fails (with -EINVAL);
\* "jwt": a parsable token
TokenFiles ==
    {[state |-> s, exp |-> NoClaim, nbf |-> NoClaim] :
        s \in {"nopath", "missing", "empty", "unreadable", "unparsable"}}
    \cup {[state |-> "jwt", exp |-> e, nbf |-> n] : e \in Claims, n \in Claims}

\* what the caller's char *login_token holds: no out-parameter at all
\* (login_token == NULL), a NULL pointer, an unrelated non-NULL pointer,
\* or the token string read from the file
PtrNone == "none"
PtrNull == "NULL"
PtrGarbage == "garbage"
PtrToken == "token"

----------------------------------------------------------------------------
(* JSON objects (json-c): a value has a type, a scalar text and, for an    *)
(* object, its members in insertion order.                                 *)

\* a NULL json_object pointer
NoObj == [t |-> "NULL", s |-> "", o |-> <<>>]

JStr(x) == [t |-> "string", s |-> x, o |-> <<>>]
JInt(x) == [t |-> "int", s |-> x, o |-> <<>>]
JArr == [t |-> "array", s |-> "", o |-> <<>>]
JObj(members) == [t |-> "object", s |-> "", o |-> members]

\* json_object_is_type(obj, type)
IsType(j, type) == j.t = type

HasKey(j, k) == \E i \in 1..Len(j.o) : j.o[i][1] = k

\* json_object_object_get_ex(obj, key, &value): NULL when there is no member
Get(j, k) ==
    IF HasKey(j, k)
    THEN j.o[CHOOSE i \in 1..Len(j.o) : j.o[i][1] = k][2]
    ELSE NoObj

\* json_object_object_del(obj, key)
Del(j, k) ==
    LET keep(m) == m[1] # k
    IN  [j EXCEPT !.o = SelectSeq(j.o, keep)]

JsonCheckObj_NoNull(obj, type) == obj # NoObj /\ ~IsType(obj, type)

\* JSON_CHECK_OBJ: TRUE when the check fails (obj == NULL or wrong type)
JsonCheckObj(obj, type) == obj = NoObj \/ ~IsType(obj, type)

\* json_object_object_add_ex(j, k, v, 0): the member is appended
Add(j, k, v) == [j EXCEPT !.o = Append(@, <<k, v>>)]

\* a json object whose last reference was put: its memory is released
Freed == [t |-> "freed", s |-> "", o |-> <<>>]

\* the member k of j is released while j still refers to it
FreeMember(j, k) ==
    [j EXCEPT !.o = [i \in 1..Len(@) |->
                        IF @[i][1] = k THEN <<k, Freed>> ELSE @[i]]]

HasFreedMember(j) == \E i \in 1..Len(j.o) : j.o[i][2] = Freed

\* json_object_to_json_string_ext(j, PLAIN | NOSLASHESCAPE): the text, as
\* the sequence of its tokens; members appear in the order they were added
RECURSIVE Serialize(_)
RECURSIVE SerializeMembers(_)
SerializeMembers(o) ==
    IF o = <<>> THEN <<>>
    ELSE <<o[1][1], ":">> \o Serialize(o[1][2])
         \o (IF Len(o) = 1 THEN <<>> ELSE <<",">> \o SerializeMembers(Tail(o)))

Serialize(j) ==
    CASE j.t = "object" -> <<"{">> \o SerializeMembers(j.o) \o <<"}">>
      [] j.t = "array" -> <<"[", "]">>
      [] j.t = "string" -> <<"\"", j.s, "\"">>
      [] j.t = "int" -> <<j.s>>
      [] OTHER -> <<"null">>

----------------------------------------------------------------------------
(* Error messages: *error_msg is absent (error_msg == NULL), NULL, the     *)
(* caller's unrelated pointer, or a message this library allocated.        *)

Msg(kind, code, text) == [kind |-> kind, code |-> code, text |-> text]
MsgNone == Msg("none", "", "")
MsgNull == Msg("NULL", "", "")
MsgGarbage == Msg("garbage", "", "")

----------------------------------------------------------------------------
(* The responses a server can send.                                        *)

SigGood == "goodsig"
SigBad == "badsig"

Session == JObj(<< <<"kty", JStr("EC")>> >>)
ExportedKey == JObj(<< <<"kty", JStr("oct")>> >>)
Originator ==
    JObj(<< <<"session", Session>>, <<"partyInfo", JStr("cGFydHk")>> >>)
AdditionalInfo == JObj(<< <<"exportedKey", ExportedKey>> >>)

\* a key export response with the given signature member (NoObj: none)
ExportResponse(orig, addl, sig) ==
    JObj(<< <<"originator", orig>>, <<"additionalInfo", addl>> >>
         \o (IF sig = NoObj THEN <<>> ELSE << <<"signature", sig>> >>))

ExportResponses ==
    {ExportResponse(Originator, AdditionalInfo, sig) :
        sig \in {JStr(SigGood), JStr(SigBad), JInt("1"), NoObj}}
    \cup {ExportResponse(orig, AdditionalInfo, JStr(SigGood)) :
            orig \in {JStr("x"),
                      JObj(<< <<"partyInfo", JStr("cGFydHk")>> >>),
                      JObj(<< <<"session", Session>> >>)}}
    \cup {ExportResponse(Originator, addl, JStr(SigGood)) :
            addl \in {JArr, JObj(<<>>)}}
    \cup {ExportResponse(JObj(<< <<"session", Session>>,
                                 <<"partyInfo", JStr("cGk")>> >>),
                         AdditionalInfo, JStr(SigGood))}

ErrorResponses ==
    {JObj(<< <<"code", JInt("7")>>, <<"message", JStr("no permission")>> >>),
     JObj(<< <<"code", JStr("7")>>, <<"message", JStr("no permission")>> >>),
     JObj(<< <<"code", JInt("7")>> >>),
     JObj(<<>>)}

\* NoObj: a response without a body; JArr: a body that is not an object
Bodies == {NoObj, JArr} \cup ErrorResponses \cup ExportResponses

\* the bodies that come with a status other than 200
OtherBodies == {NoObj, JArr} \cup ErrorResponses

StatusCodes == {200, 201, 204, 302, 400, 401, 403, 404, 500}

\* how the request ends: "ok" (curl_easy_perform succeeds), a connection
\* failure, a server certificate that no CA verifies, a header the header
\* callback rejects, a body the JSON tokener rejects, or stat() failing on
\* config->tls_ca before the transfer
NetResults ==
    {"ok", "curl_error", "ssl_cacert", "content_type", "bad_json", "tls_ca"}

NoResp == [net |-> "none", status |-> 0, body |-> NoObj]

----------------------------------------------------------------------------
(* Byte buffers: a length and the content; the content is a sequence of    *)
(* tokens that names how the bytes were made.                              *)

Bytes(len, val) == [len |-> len, val |-> val]
NoBytes == Bytes(0, <<>>)

\* the locals of ekmf_retrieve_key (and transport_key of _ekmf_import_key)
\* before the call has stored anything in them: key 0 is no key
NoLocals ==
    [req_sess_ec_key |-> 0, req_sess_jwk_obj |-> NoObj,
     req_timestamp_obj |-> NoObj, req_party_info |-> NoBytes,
     req_party_info_obj |-> NoObj, request_obj |-> NoObj,
     resp_party_info |-> NoBytes, transport_key |-> <<>>]

NoDerive == [sess_key |-> 0, party_info |-> NoBytes]

NoGhost ==
    [signed |-> <<>>, sent |-> NoObj, verified |-> <<>>,
     derive_in |-> NoDerive, keygen0 |-> 0, keysize |-> 0]

----------------------------------------------------------------------------
(* ekmf_check_login_token                                                  *)

\* json_object_object_get_ex(...) && json_object_is_type(..., json_type_int)
ClaimIsInt(c) == c.kind = "int"

ExpExpired_GE(t, exp) == t >= exp

\* if (now > exp)
ExpExpired(t, exp) == t > exp

\* if (now <= nbf)
NotYetValid(t, nbf) == t <= nbf

\* the exp block: the result so far after the exp claim was looked at
CheckExp(t, c, r) ==
    IF ClaimIsInt(c)
    THEN IF c.val = 0
         THEN [r EXCEPT !.rc = -EIO, !.stop = TRUE]
         ELSE IF ExpExpired(t, c.val) THEN [r EXCEPT !.valid = FALSE] ELSE r
    ELSE r

\* the nbf block
CheckNbf(t, c, r) ==
    IF r.stop THEN r
    ELSE IF ClaimIsInt(c)
    THEN IF c.val = 0
         THEN [r EXCEPT !.rc = -EIO, !.stop = TRUE]
         ELSE IF NotYetValid(t, c.val) THEN [r EXCEPT !.valid = FALSE] ELSE r
    ELSE r

\* if (login_token != NULL && *valid) *login_token = token;
HandOver(r, lt) ==
    IF ~r.stop /\ lt # PtrNone /\ r.valid THEN PtrToken ELSE lt

\* the whole function: f the token file, t the time, v the caller's *valid,
\* lt the caller's *login_token; the result is [rc, valid, login_token]
CheckLoginToken(f, t, v, lt) ==
    IF f.state = "nopath"
    THEN [rc |-> 0, valid |-> FALSE, login_token |-> lt]
    ELSE LET lt0 == IF lt # PtrNone THEN PtrNull ELSE lt
         IN  CASE f.state = "missing" ->
                    [rc |-> -ENOENT, valid |-> v, login_token |-> lt0]
               [] f.state = "empty" ->
                    [rc |-> -EIO, valid |-> v, login_token |-> lt0]
               [] f.state = "unreadable" ->
                    [rc |-> -EACCES, valid |-> v, login_token |-> lt0]
               [] f.state = "unparsable" ->
                    [rc |-> -EINVAL, valid |-> TRUE, login_token |-> lt0]
               [] OTHER ->
                    LET r0 == [rc |-> 0, valid |-> TRUE, stop |-> FALSE]
                        r2 == CheckNbf(t, f.nbf, CheckExp(t, f.exp, r0))
                    IN  [rc |-> r2.rc, valid |-> r2.valid,
                         login_token |-> HandOver(r2, lt0)]

----------------------------------------------------------------------------
(* Transport: _ekmf_get_api_error, _ekmf_perform_request, CURL handles     *)

\* the error information of an API error response: [rc, msg]
GetApiError(obj) ==
    IF obj = NoObj THEN [rc |-> -EINVAL, msg |-> MsgNull]
    ELSE IF ~IsType(obj, "object") THEN [rc |-> -EBADMSG, msg |-> MsgNull]
    ELSE IF ~HasKey(obj, "code") \/ ~IsType(Get(obj, "code"), "int")
         THEN [rc |-> -EBADMSG, msg |-> MsgNull]
    ELSE IF ~HasKey(obj, "message") \/ ~IsType(Get(obj, "message"), "string")
         THEN [rc |-> -EBADMSG, msg |-> MsgNull]
    ELSE [rc |-> 0,
          msg |-> Msg("EKMFWeb", Get(obj, "code").s, Get(obj, "message").s)]

----------------------------------------------------------------------------
(* The header callback of _ekmf_perform_request.  A header line is the     *)
(* sequence of its characters, with the line end.                          *)

\* #define HTTP_HDR_CONTENT_TYPE
HTTP_HDR_CONTENT_TYPE ==
    <<"C", "o", "n", "t", "e", "n", "t", "-", "T", "y", "p", "e", ":">>

\* accepted_content_types[0]
TypeJson ==
    <<"a", "p", "p", "l", "i", "c", "a", "t", "i", "o", "n", "/", "j", "s",
      "o", "n">>

\* accepted_content_types[1]
TypeXJson ==
    <<"t", "e", "x", "t", "/", "x", "-", "j", "s", "o", "n">>

\* a header line with the first accepted type
HdrJson ==
    <<"C", "o", "n", "t", "e", "n", "t", "-", "T", "y", "p", "e", ":", " ",
      "a", "p", "p", "l", "i", "c", "a", "t", "i", "o", "n", "/", "j", "s",
      "o", "n", "\r", "\n">>

\* the accepted type in other case, without a space, with a parameter
HdrJsonCharset ==
    <<"c", "o", "n", "t", "e", "n", "t", "-", "t", "y", "p", "e", ":", "A",
      "p", "p", "l", "i", "c", "a", "t", "i", "o", "n", "/", "J", "S", "O",
      "N", ";", " ", "c", "h", "a", "r", "s", "e", "t", "=", "u", "t", "f",
      "-", "8", "\r", "\n">>

\* a header line with the second accepted type
HdrXJson ==
    <<"C", "o", "n", "t", "e", "n", "t", "-", "T", "y", "p", "e", ":", " ",
      " ", "t", "e", "x", "t", "/", "x", "-", "j", "s", "o", "n", "\r", "\n">>

\* a header line with another type
HdrHtml ==
    <<"C", "o", "n", "t", "e", "n", "t", "-", "T", "y", "p", "e", ":", " ",
      "t", "e", "x", "t", "/", "h", "t", "m", "l", "\r", "\n">>

\* a type that is shorter than every accepted type
HdrText ==
    <<"C", "o", "n", "t", "e", "n", "t", "-", "T", "y", "p", "e", ":", " ",
      "t", "e", "x", "t", "\r", "\n">>

\* a type that names an accepted type in a parameter
HdrJsonLate ==
    <<"C", "o", "n", "t", "e", "n", "t", "-", "T", "y", "p", "e", ":", " ",
      "t", "e", "x", "t", "/", "h", "t", "m", "l", ";", " ", "x", "=", "a",
      "p", "p", "l", "i", "c", "a", "t", "i", "o", "n", "/", "j", "s", "o",
      "n", "\r", "\n">>

\* a Content-Type header without a value
HdrEmpty ==
    <<"C", "o", "n", "t", "e", "n", "t", "-", "T", "y", "p", "e", ":", "\r",
      "\n">>

\* a header line that is not a Content-Type header
HdrServer ==
    <<"S", "e", "r", "v", "e", "r", ":", " ", "x", "\r", "\n">>

accepted_content_types == <<TypeJson, TypeXJson>>

\* the header lines a response comes with
HeaderLines ==
    {HdrJson, HdrJsonCharset, HdrXJson, HdrHtml, HdrText, HdrJsonLate,
     HdrEmpty, HdrServer}

\* tolower() on the letters the header lines are made of
ToLower(c) ==
    CASE c = "A" -> "a" [] c = "C" -> "c" [] c = "J" -> "j"
      [] c = "N" -> "n" [] c = "O" -> "o" [] c = "S" -> "s"
      [] c = "T" -> "t" [] OTHER -> c

\* strncasecmp(str + ofs, prefix, strlen(prefix)) == 0, for a str that has
\* strlen(prefix) characters from ofs on
StrNCaseEq(str, ofs, prefix) ==
    \A i \in 1..Len(prefix) : ToLower(str[ofs + i]) = ToLower(prefix[i])

\* while (*val == ' ' && ofs < num) ofs++
RECURSIVE SkipSpaces(_, _)
SkipSpaces(hdr, ofs) ==
    IF ofs < Len(hdr) /\ hdr[ofs + 1] = " "
    THEN SkipSpaces(hdr, ofs + 1) ELSE ofs

HeaderCb_AcceptAll(hdr) == [ret |-> Len(hdr), error |-> FALSE]

\* _ekmf_header_cb(contents, size, nmemb, userp): the number of characters
\* taken (0 aborts the transfer) and cb->error
HeaderCb(hdr) ==
    LET num == Len(hdr)
        name == Len(HTTP_HDR_CONTENT_TYPE)
        ok == [ret |-> num, error |-> FALSE]
        ofs == SkipSpaces(hdr, name)
    IN  IF num < 2 THEN ok
        ELSE IF num < name THEN ok
        ELSE IF ~StrNCaseEq(hdr, 0, HTTP_HDR_CONTENT_TYPE) THEN ok
        ELSE IF ofs >= num THEN ok
        ELSE IF \E i \in 1..Len(accepted_content_types) :
                  /\ num - ofs >= Len(accepted_content_types[i])
                  /\ StrNCaseEq(hdr, ofs, accepted_content_types[i])
        THEN ok
        ELSE [ret |-> 0, error |-> TRUE]

\* curl_easy_perform: net0 is the way the transfer ends but for the header
\* callback; a connection or certificate error comes before any header,
\* and a header the callback does not take aborts the transfer
Transfer(net0, hdr) ==
    IF net0 \in {"ok", "bad_json"} /\ HeaderCb(hdr).error
    THEN "content_type" ELSE net0


\* CURLE_COULDNT_CONNECT, the (positive) code of a failed curl_easy_perform
CurlErrors == {7}

\* the request: em is *error_msg on entry (MsgNone: error_msg == NULL), net
\* the way curl_easy_perform ends, status and body what the server sent.
\* The result is [rc, status_code, response, error_msg].
PerformRequest(em, net, status, body) ==
    LET em0 == IF em # MsgNone THEN MsgNull ELSE em
        fail(code, kind, text) ==
            [rc |-> code, status_code |-> 0, response |-> NoObj,
             error_msg |-> IF em0 # MsgNone THEN Msg(kind, "", text)
                           ELSE em0]
    IN  CASE net = "curl_error" ->
                fail(CHOOSE c \in CurlErrors : TRUE, "CURL",
                     "Couldn't connect to server")
          [] net = "ssl_cacert" ->
                fail(CURLE_SSL_CACERT, "CURL", "SSL certificate problem")
          [] net = "tls_ca" ->
                [rc |-> -ENOENT, status_code |-> 0, response |-> NoObj,
                 error_msg |-> em0]
          [] net = "content_type" ->
                fail(-EBADMSG, "lib", "Unexpected response Content-Type")
          [] net = "bad_json" ->
                fail(-EBADMSG, "lib",
                     "Failed to JSON parse the response content")
          [] OTHER ->
                IF status >= 400 /\ body # NoObj /\ em0 # MsgNone
                THEN LET e == GetApiError(body)
                     IN  [rc |-> e.rc, status_code |-> status,
                          response |-> NoObj,
                          error_msg |-> IF e.rc = 0 THEN e.msg ELSE em0]
                ELSE [rc |-> 0, status_code |-> status, response |-> body,
                      error_msg |-> em0]

\* _ekmf_get_curl_handle: ch is *curl_handle ("none": curl_handle == NULL),
\* init_ok whether curl_easy_init() succeeds; "H2" is the new handle
GetCurlHandle(ch, init_ok) ==
    LET c0 == IF ch # "none" THEN ch ELSE "NULL"
        c1 == IF c0 = "NULL" THEN (IF init_ok THEN "H2" ELSE "NULL") ELSE c0
    IN  [rc |-> IF c1 = "NULL" THEN -EIO ELSE 0, curl |-> c1,
         init |-> c0 = "NULL"]

\* _ekmf_release_curl_handle: the new *curl_handle and whether the handle
\* is destroyed
ReleaseCurlHandle(ch, c) ==
    [curl_handle |-> IF c # "NULL" /\ ch # "none" THEN c ELSE ch,
     cleanup |-> c # "NULL" /\ ch = "none"]

----------------------------------------------------------------------------
(* ekmf_retrieve_key: the status switch, the response checks               *)

TokenCheckFailed_RcOnly(r) == r.rc # 0

\* if (rc != 0 || !token_valid)
TokenCheckFailed(r) == r.rc # 0 \/ ~r.valid

StatusToRc_NoForbidden(status) ==
    CASE status = 200 -> 0
      [] status = 400 -> -EBADMSG
      [] status = 401 -> -EACCES
      [] status = 404 -> -ENOENT
      [] OTHER -> -EIO

\* switch (status_code) of ekmf_retrieve_key: 0 means "go on"
StatusToRc(status) ==
    CASE status = 200 -> 0
      [] status = 400 -> -EBADMSG
      [] status = 401 -> -EACCES
      [] status = 403 -> -EPERM
      [] status = 404 -> -ENOENT
      [] OTHER -> -EIO

\* verify_json_web_signature(signature, payload, ..., server_pubkey)
VerifyJWS(sig, payload) == IF sig = SigGood THEN 0 ELSE -EIO

VerifySignature_IgnoreResult(obj) ==
    IF obj = NoObj THEN [rc |-> -EINVAL, obj |-> obj, bytes |-> <<>>]
    ELSE LET sig == Get(obj, "signature")
         IN  IF JsonCheckObj(sig, "string")
             THEN [rc |-> -EIO, bytes |-> <<>>,
                   obj |-> IF sig = NoObj THEN obj
                           ELSE FreeMember(obj, "signature")]
             ELSE [rc |-> 0, obj |-> Del(obj, "signature"),
                   bytes |-> Serialize(Del(obj, "signature"))]

\* _ekmf_verify_signature: [rc, obj, bytes], obj the response object
\* afterwards and bytes the payload handed to the verification.  At out
\* the signature member is put whenever it is not NULL: a member that is
\* not a string was never taken from the object, so it is released while
\* the object still refers to it.
VerifySignature(obj) ==
    IF obj = NoObj THEN [rc |-> -EINVAL, obj |-> obj, bytes |-> <<>>]
    ELSE LET sig == Get(obj, "signature")
         IN  IF JsonCheckObj(sig, "string")
             THEN [rc |-> -EIO, bytes |-> <<>>,
                   obj |-> IF sig = NoObj THEN obj
                           ELSE FreeMember(obj, "signature")]
             ELSE LET payload == Del(obj, "signature")
                  IN  [rc |-> VerifyJWS(sig.s, payload), obj |-> payload,
                       bytes |-> Serialize(payload)]

\* json_object_get_base64url(obj, key, ...)
GetBase64Url(obj, k) == IF IsType(Get(obj, k), "string") THEN 0 ELSE -EIO

ExtractResponse_IgnoreSession(obj) ==
    LET orig == Get(obj, "originator")
        addl == Get(obj, "additionalInfo")
    IN  IF JsonCheckObj(orig, "object") THEN -EBADMSG
        ELSE IF GetBase64Url(orig, "partyInfo") # 0
             THEN GetBase64Url(orig, "partyInfo")
        ELSE IF JsonCheckObj(addl, "object") THEN -EBADMSG
        ELSE IF JsonCheckObj(Get(addl, "exportedKey"), "object")
             THEN -EBADMSG
        ELSE 0

\* the extraction of originator.session, originator.partyInfo and
\* additionalInfo.exportedKey from the verified response: the rc
ExtractResponse(obj) ==
    LET orig == Get(obj, "originator")
        addl == Get(obj, "additionalInfo")
    IN  IF JsonCheckObj(orig, "object") THEN -EBADMSG
        ELSE IF JsonCheckObj(Get(orig, "session"), "object") THEN -EBADMSG
        ELSE IF GetBase64Url(orig, "partyInfo") # 0
             THEN GetBase64Url(orig, "partyInfo")
        ELSE IF JsonCheckObj(addl, "object") THEN -EBADMSG
        ELSE IF JsonCheckObj(Get(addl, "exportedKey"), "object")
             THEN -EBADMSG
        ELSE 0

----------------------------------------------------------------------------
(* The key agreement session and the request.                              *)

KeyIds == {"k1", "k2"}

\* get_json_timestamp() at time t
GetJsonTimestamp(t) == JStr(ToString(t))

JsonGetString_Quoted(obj) == ToString(obj.s)

\* json_object_get_string(obj) of a string object
JsonGetString(obj) == obj.s

\* cca_get_ecc_pub_key_as_json_web_key(key, ..): the public part of key k
SessionJwk(k) == JObj(<< <<"kty", JStr("EC")>>, <<"x", JStr(ToString(k))>> >>)

\* json_object_new_base64url(b.val, b.len): the text of the encoding
Base64Url(b) == ToString(b.val)

\* json_object_get_base64url(.., &buf, &len) of a string member
DecodeBase64Url(str) ==
    CASE str = "cGFydHk" -> Bytes(5, <<"p", "a", "r", "t", "y">>)
      [] str = "cGk" -> Bytes(2, <<"p", "i">>)
      [] OTHER -> NoBytes

\* EVP_MD_size(EVP_get_digestbynid(nid)); 0 when there is no such digest
MdSize(nid) ==
    CASE nid = NID_sha256 -> SHA256_DIGEST_LENGTH
      [] nid = NID_sha384 -> 48
      [] nid = NID_sha512 -> SHA512_DIGEST_LENGTH
      [] nid = 64 -> 20
      [] OTHER -> 0

\* the digest function a NID names
MdName(nid) ==
    CASE nid = NID_sha256 -> "sha256"
      [] nid = NID_sha384 -> "sha384"
      [] nid = NID_sha512 -> "sha512"
      [] nid = 64 -> "sha1"
      [] OTHER -> "none"

PartyInfoMd_Sha512(digest_nid) ==
    IF digest_nid # 0 THEN digest_nid ELSE NID_sha512

\* digest_nid != 0 ? digest_nid : NID_sha256
PartyInfoMd(digest_nid) ==
    IF digest_nid # 0 THEN digest_nid ELSE NID_sha256

BuildPartyInfo_OtherData(key_uuid, timestamp, digest_nid, buf, cap, obj0, evp_rc) ==
    LET md == PartyInfoMd(digest_nid)
        untouched == [party_info |-> buf, len |-> cap, obj |-> obj0]
    IN  IF MdSize(md) = 0
        THEN [rc |-> -EINVAL] @@ untouched
        ELSE IF cap < MdSize(md)
        THEN [rc |-> -ERANGE] @@ untouched
        ELSE IF evp_rc # 0
        THEN [rc |-> evp_rc] @@ untouched
        ELSE LET digest == Bytes(MdSize(md),
                                 <<MdName(md), key_uuid, timestamp>>)
             IN  [rc |-> 0, party_info |-> digest, len |-> digest.len,
                  obj |-> JStr(Base64Url(Bytes(MdSize(md),
                                               <<MdName(md), key_uuid>>)))]

\* _ekmf_build_party_info(key_uuid, timestamp, digest_nid, buf, &cap, &obj):
\* the digest of key_uuid and timestamp in the buffer, its length and its
\* encoding; buf, cap and obj0 are the values of the outputs on entry
BuildPartyInfo(key_uuid, timestamp, digest_nid, buf, cap, obj0, evp_rc) ==
    LET md == PartyInfoMd(digest_nid)
        untouched == [party_info |-> buf, len |-> cap, obj |-> obj0]
    IN  IF MdSize(md) = 0
        THEN [rc |-> -EINVAL] @@ untouched
        ELSE IF cap < MdSize(md)
        THEN [rc |-> -ERANGE] @@ untouched
        ELSE IF evp_rc # 0
        THEN [rc |-> evp_rc] @@ untouched
        ELSE LET digest == Bytes(MdSize(md),
                                 <<MdName(md), key_uuid, timestamp>>)
             IN  [rc |-> 0, party_info |-> digest, len |-> digest.len,
                  obj |-> JStr(Base64Url(digest))]

BuildRequest_AdditionalInfoFirst(key_uuid, jwk, ts_obj, pi_obj) ==
    LET addl == Add(Add(Add(JObj(<<>>), "kdf", JStr("ANS-X9.63-CCA")),
                        "requestedKey", JStr(key_uuid)),
                    "timestamp", ts_obj)
        orig == Add(Add(JObj(<<>>), "session", jwk), "partyInfo", pi_obj)
    IN  Add(Add(JObj(<<>>), "additionalInfo", addl), "originator", orig)

\* the request object of ekmf_retrieve_key before it is signed
BuildRequest(key_uuid, jwk, ts_obj, pi_obj) ==
    LET addl == Add(Add(Add(JObj(<<>>), "kdf", JStr("ANS-X9.63-CCA")),
                        "requestedKey", JStr(key_uuid)),
                    "timestamp", ts_obj)
        orig == Add(Add(JObj(<<>>), "session", jwk), "partyInfo", pi_obj)
    IN  Add(Add(JObj(<<>>), "originator", orig), "additionalInfo", addl)

\* create_json_web_signature(.., payload, ..): the compact signature
CreateJWS(payload) == ToString(payload)

SignOutcomes ==
    {"ok", "unsupported", "setup_failed", "jws_failed", "add_failed"}

\* _ekmf_build_signature(identity_key, .., payload_obj, &signature_obj, ..):
\* bytes are the bytes handed to the signing primitive
BuildSignature(payload_obj, how) ==
    IF how = "unsupported"
    THEN [rc |-> -EINVAL, bytes |-> <<>>, signature_obj |-> NoObj]
    ELSE IF how = "setup_failed"
    THEN [rc |-> -EIO, bytes |-> <<>>, signature_obj |-> NoObj]
    ELSE LET payload == Serialize(payload_obj)
         IN  IF how = "jws_failed"
             THEN [rc |-> -EIO, bytes |-> payload, signature_obj |-> NoObj]
             ELSE [rc |-> 0, bytes |-> payload,
                   signature_obj |-> JStr(CreateJWS(payload))]

SignRequest_AddFirst(request_obj, how) ==
    LET r == BuildSignature(Add(request_obj, "signature", JStr("")),
                            IF how = "add_failed" THEN "ok" ELSE how)
    IN  IF r.rc # 0
        THEN [rc |-> r.rc, signed |-> r.bytes, request_obj |-> request_obj]
        ELSE IF how = "add_failed"
        THEN [rc |-> -EIO, signed |-> r.bytes, request_obj |-> request_obj]
        ELSE [rc |-> 0, signed |-> r.bytes,
              request_obj |-> Add(request_obj, "signature", r.signature_obj)]

\* ekmf_retrieve_key: the request is signed, then the signature is added
SignRequest(request_obj, how) ==
    LET r == BuildSignature(request_obj,
                            IF how = "add_failed" THEN "ok" ELSE how)
    IN  IF r.rc # 0
        THEN [rc |-> r.rc, signed |-> r.bytes, request_obj |-> request_obj]
        ELSE IF how = "add_failed"
        THEN [rc |-> -EIO, signed |-> r.bytes, request_obj |-> request_obj]
        ELSE [rc |-> 0, signed |-> r.bytes,
              request_obj |-> Add(request_obj, "signature", r.signature_obj)]

GenerateSessionKey_Cached(n, gen_ok) ==
    IF n > 0 THEN [rc |-> 0, key |-> n, keygen |-> n, calls |-> <<>>]
    ELSE IF ~gen_ok
    THEN [rc |-> -EIO, key |-> 0, keygen |-> n,
          calls |-> <<"cca_generate_ecc_key_pair">>]
    ELSE [rc |-> 0, key |-> n + 1, keygen |-> n + 1,
          calls |-> <<"cca_generate_ecc_key_pair">>]

\* ekmf_retrieve_key, case EKMF_EXT_LIB_CCA: cca_generate_ecc_key_pair
\* fills req_sess_ec_key; n key pairs were generated before, so that the
\* new one is key pair n + 1
GenerateSessionKey(n, gen_ok) ==
    IF ~gen_ok
    THEN [rc |-> -EIO, key |-> 0, keygen |-> n,
          calls |-> <<"cca_generate_ecc_key_pair">>]
    ELSE [rc |-> 0, key |-> n + 1, keygen |-> n + 1,
          calls |-> <<"cca_generate_ecc_key_pair">>]

\* the party info member of the response's originator, decoded
RespPartyInfo(obj) ==
    DecodeBase64Url(Get(Get(obj, "originator"), "partyInfo").s)

CombinePartyInfo_ResponderFirst(req_party_info, resp_party_info) ==
    Bytes(req_party_info.len + resp_party_info.len,
          resp_party_info.val \o req_party_info.val)

\* _ekmf_import_key: party_info = req_party_info, then resp_party_info
CombinePartyInfo(req_party_info, resp_party_info) ==
    Bytes(req_party_info.len + resp_party_info.len,
          req_party_info.val \o resp_party_info.val)

\* cca_ec_dh_derive_importer(.., CCA_KDF_ANS_X9_63_CCA, transport_key, ..)
DeriveImporter(req_sess_key, resp_sess_jwk, party_info) ==
    <<"ANS-X9.63-CCA", ToString(req_sess_key)>> \o Serialize(resp_sess_jwk)
    \o party_info.val

ImportExternalKey_NoSizeReport(blob, blob_len, keysize, ok) ==
    IF ~ok THEN [rc |-> -EIO, key_blob |-> blob, key_blob_length |-> blob_len]
    ELSE IF blob_len < keysize
    THEN [rc |-> -ERANGE, key_blob |-> blob, key_blob_length |-> blob_len]
    ELSE [rc |-> 0, key_blob |-> Bytes(keysize, <<"unwrapped">>),
          key_blob_length |-> keysize]

\* cca_import_external_key(.., key_blob, key_blob_length, ..): the unwrapped
\* key has keysize bytes; a failed unwrap writes nothing, a buffer that is
\* too small gets nothing but the size that is required
ImportExternalKey(blob, blob_len, keysize, ok) ==
    IF ~ok THEN [rc |-> -EIO, key_blob |-> blob, key_blob_length |-> blob_len]
    ELSE IF blob_len < keysize
    THEN [rc |-> -ERANGE, key_blob |-> blob, key_blob_length |-> keysize]
    ELSE [rc |-> 0, key_blob |-> Bytes(keysize, <<"unwrapped">>),
          key_blob_length |-> keysize]

----------------------------------------------------------------------------
NoArg ==
    [valid |-> FALSE, login_token |-> PtrNone, curl_handle |-> "none",
     error_msg |-> MsgNone, args_ok |-> TRUE, ext_lib |-> "CCA",
     key_uuid |-> "", key_blob_length |-> 0]

Init ==
    /\ now \in 1..MaxTime
    /\ tokfile \in TokenFiles
    /\ pc = "idle"
    /\ op = "none"
    /\ arg = NoArg
    /\ rc = 0
    /\ valid = FALSE
    /\ login_token = PtrNone
    /\ curl_handle = "none"
    /\ curl = "NULL"
    /\ error_msg = MsgNone
    /\ status_code = 0
    /\ response_obj = NoObj
    /\ resp = NoResp
    /\ trace = <<>>
    /\ locals = NoLocals
    /\ ghost = NoGhost
    /\ key_blob = NoBytes
    /\ key_blob_length = 0
    /\ keygen = 0

env == <<now, tokfile>>
keying == <<locals, ghost, key_blob, key_blob_length, keygen>>
tokenOut == <<valid, login_token>>
transport == <<error_msg, status_code, response_obj, resp>>

\* a caller invokes ekmf_check_login_token(config, &valid, login_token, ..)
CallCheckLoginToken ==
    /\ pc = "idle"
    /\ \E v \in BOOLEAN, lt \in {PtrNone, PtrNull, PtrGarbage} :
          LET r == CheckLoginToken(tokfile, now, v, lt)
          IN  /\ arg' = [NoArg EXCEPT !.valid = v, !.login_token = lt]
              /\ rc' = r.rc
              /\ valid' = r.valid
              /\ login_token' = r.login_token
    /\ op' = "check"
    /\ pc' = "returned"
    /\ trace' = <<"ekmf_check_login_token">>
    /\ UNCHANGED <<keying, env, curl_handle, curl, transport>>

\* a step of an operation that sets rc and goes to the next position,
\* having called the collaborators in calls
Step(code, next, calls) ==
    /\ rc' = code
    /\ pc' = next
    /\ trace' = trace \o calls

\* a step that only calls a collaborator, which fails with -EIO or succeeds
Collaborate(here, call, next, out) ==
    /\ pc = here
    /\ \E ok \in BOOLEAN :
          Step(IF ok THEN 0 ELSE -EIO, IF ok THEN next ELSE out, <<call>>)
    /\ UNCHANGED <<keying, env, op, arg, tokenOut, curl_handle, curl, transport>>

----------------------------------------------------------------------------
(* ekmf_retrieve_key                                                       *)

\* the caller's buffer of cap bytes as it is on entry
EntryBlob(cap) == Bytes(cap, <<"entry">>)

\* entry: the argument check; the locals get their initial values
RK_Call ==
    /\ pc = "idle"
    /\ keygen < MaxKeys
    /\ \E ch \in {"none", "NULL", "H1"},
          em \in {MsgNone, MsgNull, MsgGarbage},
          ok \in BOOLEAN, lib \in {"CCA", "other"},
          id \in KeyIds, cap \in 1..MaxKeyLen :
          /\ arg' = [NoArg EXCEPT !.curl_handle = ch, !.error_msg = em,
                                  !.args_ok = ok, !.ext_lib = lib,
                                  !.key_uuid = id, !.key_blob_length = cap]
          /\ curl_handle' = ch
          /\ error_msg' = em
          /\ key_blob' = EntryBlob(cap)
          /\ key_blob_length' = cap
          /\ IF ok THEN Step(0, "rk_token", <<>>)
                   ELSE Step(-EINVAL, "returned", <<>>)
    /\ op' = "retrieve"
    /\ valid' = FALSE
    /\ login_token' = PtrNull
    /\ curl' = "NULL"
    /\ locals' = NoLocals
    /\ ghost' = [NoGhost EXCEPT !.keygen0 = keygen]
    /\ UNCHANGED <<env, keygen, status_code, response_obj, resp>>

\* rc = ekmf_check_login_token(config, &token_valid, &login_token, ..)
RK_CheckToken ==
    /\ pc = "rk_token"
    /\ LET r == CheckLoginToken(tokfile, now, valid, login_token)
       IN  /\ valid' = r.valid
           /\ login_token' = r.login_token
           /\ IF TokenCheckFailed(r)
              THEN Step(-EACCES, "rk_out", <<"ekmf_check_login_token">>)
              ELSE Step(r.rc, "rk_curl", <<"ekmf_check_login_token">>)
    /\ UNCHANGED <<keying, env, op, arg, curl_handle, curl, transport>>

\* rc = _ekmf_get_curl_handle(curl_handle, &curl)
RK_GetCurlHandle ==
    /\ pc = "rk_curl"
    /\ \E init_ok \in BOOLEAN :
          LET r == GetCurlHandle(curl_handle, init_ok)
              calls == IF r.init THEN <<"curl_easy_init">> ELSE <<>>
          IN  /\ curl' = r.curl
              /\ IF r.rc # 0 THEN Step(-EIO, "rk_out", calls)
                             ELSE Step(0, "rk_pubkey", calls)
    /\ UNCHANGED <<keying, env, op, arg, tokenOut, curl_handle, transport>>

\* rc = read_public_key(config->ekmf_server_pubkey, &server_pubkey)
RK_ReadServerPubkey ==
    Collaborate("rk_pubkey", "read_public_key", "rk_identity", "rk_out")

\* rc = read_key_blob(config->identity_secure_key, identity_key, ..)
RK_ReadIdentityKey ==
    Collaborate("rk_identity", "read_key_blob", "rk_session", "rk_out")

frame == <<env, op, arg, tokenOut, curl_handle, curl, transport>>

\* switch (ext_lib->type): the ephemeral session key pair and its JWK; an
\* unknown library type returns at once, without the cleanup at out
RK_GenerateSessionKey ==
    /\ pc = "rk_session"
    /\ IF arg.ext_lib = "CCA"
       THEN \E gen_ok \in BOOLEAN, jwk_ok \in BOOLEAN :
               LET g == GenerateSessionKey(keygen, gen_ok)
                   jwk == <<"cca_get_ecc_pub_key_as_json_web_key">>
               IN  /\ keygen' = g.keygen
                   /\ IF g.rc # 0
                      THEN /\ Step(g.rc, "rk_out", g.calls)
                           /\ UNCHANGED locals
                      ELSE IF ~jwk_ok
                      THEN /\ Step(-EIO, "rk_out", g.calls \o jwk)
                           /\ locals' = [locals EXCEPT
                                            !.req_sess_ec_key = g.key]
                      ELSE /\ Step(0, "rk_partyinfo", g.calls \o jwk)
                           /\ locals' = [locals EXCEPT
                                 !.req_sess_ec_key = g.key,
                                 !.req_sess_jwk_obj = SessionJwk(g.key)]
       ELSE /\ Step(-EINVAL, "returned", <<>>)
            /\ UNCHANGED <<locals, keygen>>
    /\ UNCHANGED <<frame, ghost, key_blob, key_blob_length>>

\* req_timestamp_obj = get_json_timestamp(); _ekmf_build_party_info(..)
RK_BuildPartyInfo ==
    /\ pc = "rk_partyinfo"
    /\ \E ts_ok \in BOOLEAN, evp_rc \in {0, -EIO} :
          IF ~ts_ok
          THEN /\ Step(-EIO, "rk_out", <<"get_json_timestamp">>)
               /\ UNCHANGED locals
          ELSE LET ts == GetJsonTimestamp(now)
                   r == BuildPartyInfo(arg.key_uuid, JsonGetString(ts),
                                       NID_sha256, locals.req_party_info,
                                       SHA512_DIGEST_LENGTH,
                                       locals.req_party_info_obj, evp_rc)
               IN  /\ Step(r.rc, IF r.rc # 0 THEN "rk_out" ELSE "rk_request",
                           <<"get_json_timestamp", "_ekmf_build_party_info">>)
                   /\ locals' = [locals EXCEPT
                                    !.req_timestamp_obj = ts,
                                    !.req_party_info = r.party_info,
                                    !.req_party_info_obj = r.obj]
    /\ UNCHANGED <<frame, ghost, key_blob, key_blob_length, keygen>>

\* the request object: additionalInfo, originator, request_obj
RK_BuildRequest ==
    /\ pc = "rk_request"
    /\ \E r \in {0, -ENOMEM, -EIO} :
          /\ Step(r, IF r = 0 THEN "rk_sign" ELSE "rk_out", <<>>)
          /\ IF r # 0 THEN UNCHANGED locals
             ELSE locals' = [locals EXCEPT
                    !.request_obj = BuildRequest(arg.key_uuid,
                                                 locals.req_sess_jwk_obj,
                                                 locals.req_timestamp_obj,
                                                 locals.req_party_info_obj)]
    /\ UNCHANGED <<frame, ghost, key_blob, key_blob_length, keygen>>

\* rc = _ekmf_build_signature(..), the signature member is added
RK_Sign ==
    /\ pc = "rk_sign"
    /\ \E how \in SignOutcomes :
          LET r == SignRequest(locals.request_obj, how)
          IN  /\ Step(r.rc, IF r.rc # 0 THEN "rk_out" ELSE "rk_uri",
                      <<"_ekmf_build_signature">>)
              /\ locals' = [locals EXCEPT !.request_obj = r.request_obj]
              /\ ghost' = [ghost EXCEPT !.signed = r.signed]
    /\ UNCHANGED <<frame, key_blob, key_blob_length, keygen>>

\* curl_easy_escape(curl, key_uuid, 0) and asprintf(&uri, ..)
RK_BuildUri ==
    /\ pc = "rk_uri"
    /\ \E r \in {0, -EIO, -ENOMEM} :
          Step(r, IF r = 0 THEN "rk_perform" ELSE "rk_out",
               <<"curl_easy_escape">>)
    /\ UNCHANGED <<keying, env, op, arg, tokenOut, curl_handle, curl, transport>>

\* rc = _ekmf_perform_request(config, uri, "POST", request_obj, ..): the
\* server's answer is an input; a positive (CURL) code becomes -EIO
RK_PerformRequest ==
    /\ pc = "rk_perform"
    /\ \E net \in NetResults, st \in StatusCodes, body \in Bodies :
          /\ net # "ok" => (st = 200 /\ body = NoObj)
          /\ st # 200 => body \in OtherBodies
          /\ LET r == PerformRequest(error_msg, net, st, body)
             IN  /\ resp' = [net |-> net, body |-> body,
                             status |-> IF net = "ok" THEN st ELSE 0]
                 /\ error_msg' = r.error_msg
                 /\ status_code' = r.status_code
                 /\ response_obj' = r.response
                 /\ IF r.rc # 0
                    THEN Step(IF r.rc > 0 THEN -EIO ELSE r.rc, "rk_out",
                              <<"_ekmf_perform_request">>)
                    ELSE Step(0, "rk_status", <<"_ekmf_perform_request">>)
    /\ ghost' = [ghost EXCEPT !.sent = locals.request_obj]
    /\ UNCHANGED <<env, op, arg, tokenOut, curl_handle, curl, locals,
                   key_blob, key_blob_length, keygen>>

\* switch (status_code) and JSON_CHECK_OBJ(response_obj, json_type_object)
RK_StatusSwitch ==
    /\ pc = "rk_status"
    /\ IF StatusToRc(status_code) # 0
       THEN Step(StatusToRc(status_code), "rk_out", <<>>)
       ELSE IF JsonCheckObj(response_obj, "object")
       THEN Step(-EBADMSG, "rk_out", <<>>)
       ELSE Step(0, "rk_verify", <<>>)
    /\ UNCHANGED <<keying, env, op, arg, tokenOut, curl_handle, curl, transport>>

\* rc = _ekmf_verify_signature(response_obj, server_pubkey, verbose)
RK_VerifySignature ==
    /\ pc = "rk_verify"
    /\ LET r == VerifySignature(response_obj)
       IN  /\ response_obj' = r.obj
           /\ ghost' = [ghost EXCEPT !.verified = r.bytes]
           /\ Step(r.rc, IF r.rc # 0 THEN "rk_out" ELSE "rk_extract",
                   <<"_ekmf_verify_signature">>)
    /\ UNCHANGED <<env, op, arg, tokenOut, curl_handle, curl, error_msg,
                   status_code, resp, locals, key_blob, key_blob_length,
                   keygen>>

\* the responder's session key, party info and exported key are taken
\* from the response
RK_ExtractResponse ==
    /\ pc = "rk_extract"
    /\ LET r == ExtractResponse(response_obj)
       IN  /\ Step(r, IF r # 0 THEN "rk_out" ELSE "rk_import",
                   <<"extract_response">>)
           /\ IF GetBase64Url(Get(response_obj, "originator"),
                              "partyInfo") # 0
              THEN UNCHANGED locals
              ELSE locals' = [locals EXCEPT
                                !.resp_party_info = RespPartyInfo(response_obj)]
    /\ UNCHANGED <<frame, ghost, key_blob, key_blob_length, keygen>>

\* the backend calls of _ekmf_import_key, in order
ImportCalls ==
    <<"cca_import_key_from_json_web_key", "cca_ec_dh_derive_importer",
      "cca_import_key_from_json_web_key", "cca_import_external_key">>

ImportKey_UnwrapEarly(req_sess_key, req_pi, resp_pi, resp_sess_jwk, blob, blob_len, fail_at, keysize) ==
    LET party_info == CombinePartyInfo(req_pi, resp_pi)
        derive_in == [sess_key |-> req_sess_key, party_info |-> party_info]
        tk == DeriveImporter(req_sess_key, resp_sess_jwk, party_info)
        unwrap == ImportExternalKey(blob, blob_len, keysize, fail_at # 4)
        untouched == [rc |-> -EIO, calls |-> <<>>, derive_in |-> NoDerive,
                      transport_key |-> <<>>, key_blob |-> blob,
                      key_blob_length |-> blob_len]
    IN  CASE fail_at = -1 -> [untouched EXCEPT !.rc = -ENOMEM]
          [] fail_at = 1 ->
                [untouched EXCEPT !.calls = SubSeq(ImportCalls, 1, 1)]
          [] fail_at = 2 ->
                [untouched EXCEPT !.calls = SubSeq(ImportCalls, 1, 2),
                                  !.derive_in = derive_in]
          [] fail_at = 3 ->
                [untouched EXCEPT !.calls = SubSeq(ImportCalls, 1, 3),
                                  !.derive_in = derive_in,
                                  !.transport_key = tk,
                                  !.key_blob = unwrap.key_blob,
                                  !.key_blob_length = unwrap.key_blob_length]
          [] OTHER ->
                [rc |-> unwrap.rc, calls |-> ImportCalls,
                 derive_in |-> derive_in, transport_key |-> tk,
                 key_blob |-> unwrap.key_blob,
                 key_blob_length |-> unwrap.key_blob_length]

\* _ekmf_import_key(req_sess_key, .., key_blob, key_blob_length, ..): the
\* allocation (fail_at = -1) or the backend call number fail_at fails
\* (0: none is made to fail); derive_in is what the derivation was given,
\* transport_key what the stack buffer holds when the function returns
ImportKey(req_sess_key, req_pi, resp_pi, resp_sess_jwk, blob, blob_len, fail_at, keysize) ==
    LET party_info == CombinePartyInfo(req_pi, resp_pi)
        derive_in == [sess_key |-> req_sess_key, party_info |-> party_info]
        tk == DeriveImporter(req_sess_key, resp_sess_jwk, party_info)
        unwrap == ImportExternalKey(blob, blob_len, keysize, fail_at # 4)
        untouched == [rc |-> -EIO, calls |-> <<>>, derive_in |-> NoDerive,
                      transport_key |-> <<>>, key_blob |-> blob,
                      key_blob_length |-> blob_len]
    IN  CASE fail_at = -1 -> [untouched EXCEPT !.rc = -ENOMEM]
          [] fail_at = 1 ->
                [untouched EXCEPT !.calls = SubSeq(ImportCalls, 1, 1)]
          [] fail_at = 2 ->
                [untouched EXCEPT !.calls = SubSeq(ImportCalls, 1, 2),
                                  !.derive_in = derive_in]
          [] fail_at = 3 ->
                [untouched EXCEPT !.calls = SubSeq(ImportCalls, 1, 3),
                                  !.derive_in = derive_in,
                                  !.transport_key = tk]
          [] OTHER ->
                [rc |-> unwrap.rc, calls |-> ImportCalls,
                 derive_in |-> derive_in, transport_key |-> tk,
                 key_blob |-> unwrap.key_blob,
                 key_blob_length |-> unwrap.key_blob_length]

\* rc = _ekmf_import_key(..), then the function falls through to out
RK_ImportKey ==
    /\ pc = "rk_import"
    /\ \E fail_at \in -1..Len(ImportCalls), keysize \in 1..MaxKeyLen :
          LET r == ImportKey(locals.req_sess_ec_key, locals.req_party_info,
                             locals.resp_party_info,
                             Get(Get(response_obj, "originator"), "session"),
                             key_blob, key_blob_length, fail_at, keysize)
          IN  /\ Step(r.rc, "rk_out", <<"_ekmf_import_key">> \o r.calls)
              /\ locals' = [locals EXCEPT !.transport_key = r.transport_key]
              /\ ghost' = [ghost EXCEPT
                             !.derive_in = r.derive_in,
                             !.keysize = IF fail_at = 0 THEN keysize ELSE 0]
              /\ key_blob' = r.key_blob
              /\ key_blob_length' = r.key_blob_length
    /\ UNCHANGED <<frame, keygen>>

\* out: _ekmf_release_curl_handle(curl_handle, curl), the frees, return rc.
\* json_object_put(response_obj) puts every member once more: with a
\* member that was released before, the process is aborted or goes on
RK_Out ==
    /\ pc = "rk_out"
    /\ LET r == ReleaseCurlHandle(curl_handle, curl)
           calls == IF r.cleanup THEN <<"curl_easy_cleanup">> ELSE <<>>
       IN  /\ curl_handle' = r.curl_handle
           /\ \/ Step(rc, "returned", calls)
              \/ /\ HasFreedMember(response_obj)
                 /\ Step(rc, "crashed", calls)
    /\ UNCHANGED <<keying, env, op, arg, tokenOut, curl, transport>>

----------------------------------------------------------------------------
(* ekmf_get_public_key                                                     *)

PK_Call ==
    /\ pc = "idle"
    /\ \E ch \in {"none", "NULL", "H1"},
          em \in {MsgNone, MsgNull, MsgGarbage}, ok \in BOOLEAN :
          /\ arg' = [NoArg EXCEPT !.curl_handle = ch, !.error_msg = em,
                                  !.args_ok = ok]
          /\ curl_handle' = ch
          /\ error_msg' = em
          /\ IF ok THEN Step(0, "pk_token", <<>>)
                   ELSE Step(-EINVAL, "returned", <<>>)
    /\ op' = "pubkey"
    /\ valid' = FALSE
    /\ login_token' = PtrNull
    /\ curl' = "NULL"
    /\ UNCHANGED <<keying, env, status_code, response_obj, resp>>

PK_CheckToken ==
    /\ pc = "pk_token"
    /\ LET r == CheckLoginToken(tokfile, now, valid, login_token)
       IN  /\ valid' = r.valid
           /\ login_token' = r.login_token
           /\ IF TokenCheckFailed(r)
              THEN Step(-EACCES, "pk_out", <<"ekmf_check_login_token">>)
              ELSE Step(r.rc, "pk_curl", <<"ekmf_check_login_token">>)
    /\ UNCHANGED <<keying, env, op, arg, curl_handle, curl, transport>>

PK_GetCurlHandle ==
    /\ pc = "pk_curl"
    /\ \E init_ok \in BOOLEAN :
          LET r == GetCurlHandle(curl_handle, init_ok)
              calls == IF r.init THEN <<"curl_easy_init">> ELSE <<>>
          IN  /\ curl' = r.curl
              /\ IF r.rc # 0 THEN Step(-EIO, "pk_out", calls)
                             ELSE Step(0, "pk_perform", calls)
    /\ UNCHANGED <<keying, env, op, arg, tokenOut, curl_handle, transport>>

\* rc = _ekmf_perform_request(config, EKMF_URI_SYSTEM_PUBKEY, "GET", ..)
PK_PerformRequest ==
    /\ pc = "pk_perform"
    /\ \E net \in NetResults, st \in StatusCodes, body \in Bodies :
          /\ net # "ok" => (st = 200 /\ body = NoObj)
          /\ st # 200 => body \in OtherBodies
          /\ LET r == PerformRequest(error_msg, net, st, body)
             IN  /\ resp' = [net |-> net, body |-> body,
                             status |-> IF net = "ok" THEN st ELSE 0]
                 /\ error_msg' = r.error_msg
                 /\ status_code' = r.status_code
                 /\ response_obj' = r.response
                 /\ IF r.rc # 0
                    THEN Step(IF r.rc > 0 THEN -EIO ELSE r.rc, "pk_out",
                              <<"_ekmf_perform_request">>)
                    ELSE Step(0, "pk_status", <<"_ekmf_perform_request">>)
    /\ UNCHANGED <<keying, env, op, arg, tokenOut, curl_handle, curl>>

\* switch (status_code) of ekmf_get_public_key and JSON_CHECK_OBJ
PK_StatusSwitch ==
    /\ pc = "pk_status"
    /\ IF status_code = 401 THEN Step(-EACCES, "pk_out", <<>>)
       ELSE IF status_code # 200 THEN Step(-EIO, "pk_out", <<>>)
       ELSE IF JsonCheckObj(response_obj, "object")
       THEN Step(-EIO, "pk_out", <<>>)
       ELSE Step(0, "pk_write", <<>>)
    /\ UNCHANGED <<keying, env, op, arg, tokenOut, curl_handle, curl, transport>>

\* json_web_key_as_pkey(response_obj, EVP_PKEY_RSA, &pkey) and
\* write_public_key(config->ekmf_server_pubkey, pkey)
PK_WritePublicKey ==
    /\ pc = "pk_write"
    /\ \E jwk_ok \in BOOLEAN, write_ok \in BOOLEAN :
          IF ~jwk_ok THEN Step(-EIO, "pk_out", <<"json_web_key_as_pkey">>)
          ELSE Step(IF write_ok THEN 0 ELSE -EIO, "pk_out",
                    <<"json_web_key_as_pkey", "write_public_key">>)
    /\ UNCHANGED <<keying, env, op, arg, tokenOut, curl_handle, curl, transport>>

PK_Out ==
    /\ pc = "pk_out"
    /\ LET r == ReleaseCurlHandle(curl_handle, curl)
       IN  /\ curl_handle' = r.curl_handle
           /\ Step(rc, "returned",
                   IF r.cleanup THEN <<"curl_easy_cleanup">> ELSE <<>>)
    /\ UNCHANGED <<keying, env, op, arg, tokenOut, curl, transport>>

----------------------------------------------------------------------------
(* ekmf_get_server_cert_chain                                              *)

\* the ways the steps after the transfer end: all succeed, or
\* curl_easy_getinfo, fopen(server_cert_pem), _ekmf_process_certificate or
\* fopen(ca_bundle_pem) fails
CertChainPosts == {"ok", "getinfo", "fopen_cert", "process", "fopen_ca"}

\* the ways _ekmf_extract_pubkey ends: the key is written, or
\* BIO_new_mem_buf, PEM_read_bio_X509 or X509_get0_pubkey, fopen or
\* PEM_write_PUBKEY fails
ExtractOutcomes == {"ok", "bio", "parse", "fopen", "write"}

\* _ekmf_extract_pubkey(cert, pub_key_pem, verbose): file tells what became
\* of the PEM file
ExtractPubkey(how) ==
    CASE how = "bio" -> [rc |-> -ENOMEM, file |-> "absent"]
      [] how = "parse" -> [rc |-> 0, file |-> "absent"]
      [] how = "fopen" -> [rc |-> 0, file |-> "absent"]
      [] how = "write" -> [rc |-> 0, file |-> "partial"]
      [] OTHER -> [rc |-> 0, file |-> "written"]

\* the results of curl_easy_perform: success, a CA verification error, or
\* another CURL error
PerformResults == {0, CURLE_SSL_CACERT} \cup CurlErrors

\* the inputs of a call: config_ok: config != NULL; em: *error_msg on entry
\* (MsgNone: error_msg == NULL); init_ok: curl_easy_init() succeeds; setup:
\* the result of the options and of stat(tls_ca); first, second: the result
\* of the first and of a second curl_easy_perform; verified0: *verified on
\* entry ("none": verified == NULL, "garbage": a value that says nothing);
\* ncerts: ci->num_of_certs; ca_bundle: ca_bundle_pem != NULL; post: the
\* way the steps after the transfer end; pubkey: how the extraction of the
\* server's public key ends ("none": server_pubkey_pem == NULL)
CertChainInputs ==
    {in \in [config_ok : BOOLEAN, em : {MsgNone, MsgGarbage},
             init_ok : BOOLEAN, setup : {0, -ENOENT} \cup CurlErrors,
             first : PerformResults, second : PerformResults,
             verified0 : {"none", "garbage"}, ncerts : 0..2,
             ca_bundle : BOOLEAN, post : CertChainPosts,
             pubkey : {"none"} \cup ExtractOutcomes] :
        /\ in.first # CURLE_SSL_CACERT => in.second = 0
        /\ (~in.config_ok \/ ~in.init_ok \/ in.setup # 0) =>
              in.first = 0 /\ in.second = 0
        /\ (~in.config_ok \/ ~in.init_ok \/ in.setup # 0
                \/ in.first \notin {0, CURLE_SSL_CACERT} \/ in.second # 0) =>
              /\ in.post = "ok"
              /\ in.ncerts = 1
              /\ ~in.ca_bundle
              /\ in.pubkey = "none"
        /\ (in.post \in {"getinfo", "fopen_cert", "process"}
                \/ in.ncerts = 0) =>
              in.pubkey \in {"none", "ok"}
        /\ ~in.config_ok => in.init_ok /\ in.setup = 0
        /\ ~in.init_ok => in.setup = 0}

ShouldRetry_AnyError(code, do_verify) == code # 0 /\ do_verify # 0

\* rc == CURLE_SSL_CACERT && do_verify != 0
ShouldRetry(code, do_verify) == code = CURLE_SSL_CACERT /\ do_verify # 0

\* the label out of ekmf_get_server_cert_chain: a positive rc gives the
\* message and becomes -EIO, the handle is destroyed
CertChainOut(em0, code, attempts, verified, files) ==
    [rc |-> IF code > 0 THEN -EIO ELSE code,
     error_msg |-> IF code > 0 /\ em0 # MsgNone
                   THEN Msg("CURL", "", "Couldn't connect to server")
                   ELSE em0,
     attempts |-> attempts, verified |-> verified, files |-> files,
     pubkey_file |-> "absent",
     calls |-> <<"curl_easy_init">>
               \o [i \in 1..Len(attempts) |-> "curl_easy_perform"]
               \o <<"curl_easy_cleanup">>]

\* the certificates are written: files are the files opened for writing,
\* pubkey_file tells what became of server_pubkey_pem
CertChainWrite(in, em0, do_verify, attempts) ==
    LET verified == IF in.verified0 = "none" THEN "none"
                    ELSE IF do_verify # 0 THEN "true" ELSE "false"
        cert == {"server_cert_pem"}
        bundle == in.ncerts > 1 /\ in.ca_bundle /\ do_verify = 0
        e == ExtractPubkey(in.pubkey)
        done(code, files) ==
            CertChainOut(em0, code, attempts, verified, files)
        extracted(code, files) ==
            IF in.pubkey = "none" THEN done(code, files)
            ELSE [done(IF e.rc # 0 THEN e.rc ELSE code, files)
                     EXCEPT !.pubkey_file = e.file]
    IN  CASE in.post = "getinfo" ->
                done(CHOOSE c \in CurlErrors : TRUE, {})
          [] in.post = "fopen_cert" -> done(-EACCES, {})
          [] in.ncerts = 0 -> done(0, cert)
          [] in.post = "process" -> done(-EIO, cert)
          [] in.pubkey # "none" /\ e.rc # 0 -> extracted(e.rc, cert)
          [] in.post = "fopen_ca" /\ bundle -> extracted(-EACCES, cert)
          [] OTHER ->
                extracted(0, cert \cup (IF bundle THEN {"ca_bundle_pem"}
                                        ELSE {}))

\* ekmf_get_server_cert_chain(config, server_cert_pem, server_pubkey_pem,
\* ca_bundle_pem, verified, error_msg, verbose): attempts are the values of
\* do_verify the transfers were made with
GetServerCertChain(in) ==
    LET em0 == IF in.em # MsgNone THEN MsgNull ELSE in.em
        untouched == [attempts |-> <<>>, verified |-> in.verified0,
                      files |-> {}, pubkey_file |-> "absent"]
    IN  IF ~in.config_ok
        THEN [rc |-> -EINVAL, error_msg |-> in.em, calls |-> <<>>]
             @@ untouched
        ELSE IF ~in.init_ok
        THEN [rc |-> CURLE_FAILED_INIT, error_msg |-> em0,
              calls |-> <<"curl_easy_init">>] @@ untouched
        ELSE IF in.setup # 0
        THEN CertChainOut(em0, in.setup, <<>>, in.verified0, {})
        ELSE IF ShouldRetry(in.first, 1)
        THEN IF in.second # 0
             THEN CertChainOut(em0, in.second, <<1, 0>>, in.verified0, {})
             ELSE CertChainWrite(in, em0, 0, <<1, 0>>)
        ELSE IF in.first # 0
        THEN CertChainOut(em0, in.first, <<1>>, in.verified0, {})
        ELSE CertChainWrite(in, em0, 1, <<1>>)

\* a caller invokes ekmf_get_server_cert_chain; arg holds the inputs, ghost
\* the transfers made, *verified and the files written
CallGetServerCertChain ==
    /\ pc = "idle"
    /\ \E in \in CertChainInputs :
          LET r == GetServerCertChain(in)
          IN  /\ arg' = in @@ NoArg
              /\ rc' = r.rc
              /\ error_msg' = r.error_msg
              /\ ghost' = [attempts |-> r.attempts,
                           cert_verified |-> r.verified,
                           files |-> r.files,
                           pubkey_file |-> r.pubkey_file] @@ NoGhost
              /\ trace' = r.calls
    /\ op' = "certchain"
    /\ pc' = "returned"
    /\ UNCHANGED <<env, tokenOut, curl_handle, curl, status_code,
                   response_obj, resp, locals, key_blob, key_blob_length,
                   keygen>>


----------------------------------------------------------------------------
\* the caller takes the result; the next call starts from fresh locals
Return ==
    /\ pc = "returned"
    /\ pc' = "idle"
    /\ op' = "none"
    /\ arg' = NoArg
    /\ rc' = 0
    /\ valid' = FALSE
    /\ login_token' = PtrNone
    /\ curl_handle' = "none"
    /\ curl' = "NULL"
    /\ error_msg' = MsgNone
    /\ status_code' = 0
    /\ response_obj' = NoObj
    /\ resp' = NoResp
    /\ trace' = <<>>
    /\ locals' = NoLocals
    /\ ghost' = NoGhost
    /\ key_blob' = NoBytes
    /\ key_blob_length' = 0
    /\ UNCHANGED <<env, keygen>>

Next ==
    \/ CallCheckLoginToken
    \/ CallGetServerCertChain
    \/ RK_Call
    \/ RK_CheckToken
    \/ RK_GetCurlHandle
    \/ RK_ReadServerPubkey
    \/ RK_ReadIdentityKey
    \/ RK_GenerateSessionKey
    \/ RK_BuildPartyInfo
    \/ RK_BuildRequest
    \/ RK_Sign
    \/ RK_BuildUri
    \/ RK_PerformRequest
    \/ RK_StatusSwitch
    \/ RK_VerifySignature
    \/ RK_ExtractResponse
    \/ RK_ImportKey
    \/ RK_Out
    \/ PK_Call
    \/ PK_CheckToken
    \/ PK_GetCurlHandle
    \/ PK_PerformRequest
    \/ PK_StatusSwitch
    \/ PK_WritePublicKey
    \/ PK_Out
    \/ Return

Spec == Init /\ [][Next]_vars

----------------------------------------------------------------------------
(* The internal functions of the key agreement, applied to inputs drawn    *)
(* from bounded sets: _ekmf_build_signature, _ekmf_build_party_info and    *)
(* the choice of the session key's curve.                                  *)

\* the key types cca_get_key_type reports
PkeyTypes == {EVP_PKEY_EC, EVP_PKEY_RSA, EVP_PKEY_RSA_PSS}

\* the curves of an EC identity key; 714 (secp256k1) stands for the others
Curves == {NID_X9_62_prime256v1, NID_secp384r1, NID_secp521r1, 714}

\* the caller's digest_nid; 64 (sha1) and 1 (not a digest) are the others
Digests == {0, NID_sha256, NID_sha384, NID_sha512, 64, 1}

\* the caller's sess_ec_curve_nid
SessionCurves == {0} \cup Curves

\* the algorithm of a signature: its JWS name, the digest, and the RSA-PSS
\* parameters given to the signature context (<<>> when there are none)
Algorithm(code, alg, digest_nid, pss) ==
    [rc |-> code, jws_alg |-> alg, digest_nid |-> digest_nid, pss |-> pss]

\* switch (pkey_type): the type of the public key object made of the blob
PkeyId(pkey_type, use_rsa_pss) ==
    IF pkey_type = EVP_PKEY_EC THEN EVP_PKEY_EC
    ELSE IF use_rsa_pss THEN EVP_PKEY_RSA_PSS ELSE EVP_PKEY_RSA

EcAlgorithm_CallerDigest(curve_nid, digest_nid) ==
    LET d == IF digest_nid # 0 THEN digest_nid
             ELSE CASE curve_nid = NID_secp521r1 -> NID_sha512
                    [] curve_nid = NID_secp384r1 -> NID_sha384
                    [] OTHER -> NID_sha256
    IN  CASE curve_nid = NID_secp521r1 -> Algorithm(0, "ES512", d, <<>>)
          [] curve_nid = NID_secp384r1 -> Algorithm(0, "ES384", d, <<>>)
          [] curve_nid = NID_X9_62_prime256v1 ->
                Algorithm(0, "ES256", d, <<>>)
          [] OTHER -> Algorithm(-EINVAL, "", digest_nid, <<>>)

\* case EVP_PKEY_EC: switch (curve_nid)
EcAlgorithm(curve_nid, digest_nid) ==
    CASE curve_nid = NID_secp521r1 ->
            Algorithm(0, "ES512", NID_sha512, <<>>)
      [] curve_nid = NID_secp384r1 ->
            Algorithm(0, "ES384", NID_sha384, <<>>)
      [] curve_nid = NID_X9_62_prime256v1 ->
            Algorithm(0, "ES256", NID_sha256, <<>>)
      [] OTHER -> Algorithm(-EINVAL, "", digest_nid, <<>>)

\* case EVP_PKEY_RSA: switch (digest_nid)
RsaAlgorithm(digest_nid) ==
    CASE digest_nid = NID_sha256 -> Algorithm(0, "RS256", NID_sha256, <<>>)
      [] digest_nid = NID_sha384 -> Algorithm(0, "RS384", NID_sha384, <<>>)
      [] digest_nid \in {NID_sha512, 0} ->
            Algorithm(0, "RS512", NID_sha512, <<>>)
      [] OTHER -> Algorithm(-EINVAL, "", digest_nid, <<>>)

\* rsa_pss_params.mgf_digest_nid, rsa_pss_params.salt_len
PssParams(digest_nid) ==
    [mgf_digest_nid |-> digest_nid, salt_len |-> RSA_PSS_SALTLEN_DIGEST]

RsaPssAlgorithm_DefaultSha256(digest_nid) ==
    CASE digest_nid \in {NID_sha256, 0} ->
            Algorithm(0, "PS256", NID_sha256, PssParams(NID_sha256))
      [] digest_nid = NID_sha384 ->
            Algorithm(0, "PS384", NID_sha384, PssParams(NID_sha384))
      [] digest_nid = NID_sha512 ->
            Algorithm(0, "PS512", NID_sha512, PssParams(NID_sha512))
      [] OTHER -> Algorithm(-EINVAL, "", digest_nid, <<>>)

\* case EVP_PKEY_RSA_PSS: switch (digest_nid), and the RSA-PSS parameters
RsaPssAlgorithm(digest_nid) ==
    CASE digest_nid = NID_sha256 ->
            Algorithm(0, "PS256", NID_sha256, PssParams(NID_sha256))
      [] digest_nid = NID_sha384 ->
            Algorithm(0, "PS384", NID_sha384, PssParams(NID_sha384))
      [] digest_nid \in {NID_sha512, 0} ->
            Algorithm(0, "PS512", NID_sha512, PssParams(NID_sha512))
      [] OTHER -> Algorithm(-EINVAL, "", digest_nid, <<>>)

\* switch (EVP_PKEY_id(pkey)) of _ekmf_build_signature
SelectAlgorithm(pkey_id, curve_nid, digest_nid) ==
    CASE pkey_id = EVP_PKEY_EC -> EcAlgorithm(curve_nid, digest_nid)
      [] pkey_id = EVP_PKEY_RSA -> RsaAlgorithm(digest_nid)
      [] pkey_id = EVP_PKEY_RSA_PSS -> RsaPssAlgorithm(digest_nid)
      [] OTHER -> Algorithm(-EINVAL, "", digest_nid, <<>>)

SessionCurve_AlwaysDefault(sess_ec_curve_nid) == NID_secp521r1

\* sess_ec_curve_nid != 0 ? sess_ec_curve_nid : DEFAULT_SESSION_EC_KEY_CURVE
SessionCurve(sess_ec_curve_nid) ==
    IF sess_ec_curve_nid # 0 THEN sess_ec_curve_nid ELSE NID_secp521r1

\* the points at which _ekmf_setup_sign_context can fail
SignContextFailures ==
    {"none", "pkey_method", "md_ctx_new", "sign_init", "pkey_context",
     "pss_context"}

\* what _ekmf_setup_sign_context hands back: md is the digest given to
\* EVP_DigestSignInit (0: the key's default), ctx tells whether *md_ctx and
\* *pkey_ctx were set, calls are the calls that set up and clean up the
\* secure-key PKEY method
SignCtx(code, md, ok, calls) ==
    [rc |-> code, md |-> md, ctx |-> ok, calls |-> calls]

\* _ekmf_setup_sign_context(key_blob, .., pkey, digest_nid, rsa_pss_params,
\* &md_ctx, &pkey_ctx, ..): pss tells whether rsa_pss_params is not NULL
SetupSignContext(pkey_id, digest_nid, pss, fail_at) ==
    LET setup == <<"setup_secure_key_pkey_method">>
        failed(code) ==
            SignCtx(code, 0, FALSE,
                    setup \o <<"cleanup_secure_key_pkey_method">>)
    IN  IF fail_at = "pkey_method" THEN SignCtx(-EIO, 0, FALSE, <<>>)
        ELSE IF fail_at = "md_ctx_new" THEN failed(-ENOMEM)
        ELSE IF digest_nid # 0 /\ MdSize(digest_nid) = 0
        THEN failed(-ENOTSUP)
        ELSE IF fail_at = "sign_init" THEN failed(-EIO)
        ELSE IF fail_at = "pkey_context" THEN failed(-EIO)
        ELSE IF /\ pkey_id = EVP_PKEY_RSA_PSS
                /\ pss
                /\ fail_at = "pss_context"
        THEN failed(-EIO)
        ELSE SignCtx(0, digest_nid, TRUE, setup)

SignCalls_CleanupAlways(ctx) ==
    ctx.calls \o <<"cleanup_secure_key_pkey_method">>

\* the callers of _ekmf_setup_sign_context: if (rc != 0) goto out;
\* pkey_meth = true; .. out: if (pkey_meth) cleanup_secure_key_pkey_method()
SignCalls(ctx) ==
    IF ctx.rc # 0 THEN ctx.calls
    ELSE ctx.calls \o <<"cleanup_secure_key_pkey_method">>

\* the steps of ekmf_generate_csr and ekmf_generate_ss_cert that can fail
\* before the signing context is set up, and after it
IssuePre == {"ok", "read_key_blob", "get_pub_key", "build"}
IssuePost == {"ok", "sign", "write"}

\* the inputs of the two functions: the caller's digest and RSA-PSS
\* parameters, the identity key in the key file, and what fails
IssueInputs ==
    {in \in [args_ok : BOOLEAN, pre : IssuePre, pkey_type : PkeyTypes,
             curve_nid : Curves, digest_nid : Digests, pss : BOOLEAN,
             fail_at : SignContextFailures, post : IssuePost] :
        /\ in.pkey_type # EVP_PKEY_EC => in.curve_nid = NID_secp521r1
        /\ in.pkey_type = EVP_PKEY_EC => ~in.pss
        /\ ~in.args_ok => in.pre = "ok"
        /\ (~in.args_ok \/ in.pre # "ok") =>
              in.fail_at = "none" /\ in.digest_nid = 0
        /\ in.fail_at = "pss_context" =>
              PkeyId(in.pkey_type, in.pss) = EVP_PKEY_RSA_PSS /\ in.pss
        /\ in.fail_at # "none" => in.post = "ok"
        /\ (~in.args_ok \/ in.pre # "ok") => in.post = "ok"}

\* _ekmf_setup_sign_context was not called
NoSignCtx == SignCtx(0, 0, FALSE, <<>>)

\* what the two functions hand back: reached tells whether the signing
\* context helper was called, file tells whether the PEM file was
\* written
Issued(code, ctx, calls, file) ==
    [rc |-> code, reached |-> ctx # NoSignCtx, md |-> ctx.md,
     ctx |-> ctx.ctx, calls |-> calls, file |-> file]

\* ekmf_generate_csr(config, subject_rdns, .., digest_nid, rsa_pss_params,
\* csr_pem_filename, ..)
GenerateCsr(in) ==
    IF ~in.args_ok THEN Issued(-EINVAL, NoSignCtx, <<>>, FALSE)
    ELSE IF in.pre = "read_key_blob"
    THEN Issued(-EIO, NoSignCtx, <<"read_key_blob">>, FALSE)
    ELSE IF in.pre = "get_pub_key"
    THEN Issued(-EIO, NoSignCtx, <<"read_key_blob", "cca_get_key_type">>,
                FALSE)
    ELSE IF in.pre = "build"
    THEN Issued(-EIO, NoSignCtx, <<"read_key_blob", "cca_get_key_type">>,
                FALSE)
    ELSE LET ctx == SetupSignContext(PkeyId(in.pkey_type, in.pss),
                                     in.digest_nid, in.pss, in.fail_at)
             pre == <<"read_key_blob", "cca_get_key_type">>
         IN  IF ctx.rc # 0
             THEN Issued(ctx.rc, ctx, pre \o SignCalls(ctx), FALSE)
             ELSE IF in.post = "sign"
             THEN Issued(-EIO, ctx,
                         pre \o <<"X509_REQ_sign_ctx">> \o SignCalls(ctx),
                         FALSE)
             ELSE IF in.post = "write"
             THEN Issued(-EIO, ctx,
                         pre \o <<"X509_REQ_sign_ctx", "write_x509_request">>
                             \o SignCalls(ctx),
                         FALSE)
             ELSE Issued(0, ctx,
                         pre \o <<"X509_REQ_sign_ctx", "write_x509_request">>
                             \o SignCalls(ctx),
                         TRUE)

\* ekmf_generate_ss_cert(config, subject_rdns, .., validity_days,
\* digest_nid, rsa_pss_params, cert_pem_filename, ..)
GenerateSsCert(in) ==
    IF ~in.args_ok THEN Issued(-EINVAL, NoSignCtx, <<>>, FALSE)
    ELSE IF in.pre = "read_key_blob"
    THEN Issued(-EIO, NoSignCtx, <<"read_key_blob">>, FALSE)
    ELSE IF in.pre = "get_pub_key"
    THEN Issued(-EIO, NoSignCtx, <<"read_key_blob", "cca_get_key_type">>,
                FALSE)
    ELSE IF in.pre = "build"
    THEN Issued(-EIO, NoSignCtx, <<"read_key_blob", "cca_get_key_type">>,
                FALSE)
    ELSE LET ctx == SetupSignContext(PkeyId(in.pkey_type, in.pss),
                                     in.digest_nid, in.pss, in.fail_at)
             pre == <<"read_key_blob", "cca_get_key_type">>
         IN  IF ctx.rc # 0
             THEN Issued(ctx.rc, ctx, pre \o SignCalls(ctx), FALSE)
             ELSE IF in.post = "sign"
             THEN Issued(-EIO, ctx,
                         pre \o <<"X509_sign_ctx">> \o SignCalls(ctx),
                         FALSE)
             ELSE IF in.post = "write"
             THEN Issued(-EIO, ctx,
                         pre \o <<"X509_sign_ctx", "write_x509_certificate">>
                             \o SignCalls(ctx),
                         FALSE)
             ELSE Issued(0, ctx,
                         pre \o <<"X509_sign_ctx", "write_x509_certificate">>
                             \o SignCalls(ctx),
                         TRUE)

\* the payload the signature function is applied to
FnPayload(id) == JObj(<< <<"requestedKey", JStr(id)>> >>)

\* the capacities of the party info buffer: around each digest size
FnCapacities ==
    {SHA256_DIGEST_LENGTH - 1, SHA256_DIGEST_LENGTH, 48 - 1, 48,
     SHA512_DIGEST_LENGTH - 1, SHA512_DIGEST_LENGTH}

\* no call is in progress; the token file and the transport play no part
FnInit ==
    /\ now \in 1..MaxTime
    /\ tokfile = [state |-> "nopath", exp |-> NoClaim, nbf |-> NoClaim]
    /\ pc = "idle"
    /\ op = "none"
    /\ arg = NoArg
    /\ rc = 0
    /\ valid = FALSE
    /\ login_token = PtrNone
    /\ curl_handle = "none"
    /\ curl = "NULL"
    /\ error_msg = MsgNone
    /\ status_code = 0
    /\ response_obj = NoObj
    /\ resp = NoResp
    /\ trace = <<>>
    /\ locals = NoLocals
    /\ ghost = NoGhost
    /\ key_blob = NoBytes
    /\ key_blob_length = 0
    /\ keygen = 0

\* what the functions leave alone
fnFrame ==
    <<env, tokenOut, curl_handle, curl, transport, locals, key_blob,
      key_blob_length>>

\* _ekmf_build_signature(identity_key, .., payload_obj, &signature_obj,
\* digest_nid, use_rsa_pss, ..): arg holds the inputs, ghost the algorithm
\* given to the signature context and the signature object
FN_BuildSignature ==
    /\ pc = "idle"
    /\ \E type_ok \in BOOLEAN, pkey_type \in PkeyTypes, curve_nid \in Curves,
          digest_nid \in Digests, use_rsa_pss \in BOOLEAN, id \in KeyIds,
          fail_at \in SignContextFailures, how \in {"ok", "jws_failed"} :
          LET pkey_id == PkeyId(pkey_type, use_rsa_pss)
              alg == SelectAlgorithm(pkey_id, curve_nid, digest_nid)
              ctx == SetupSignContext(pkey_id, alg.digest_nid, TRUE, fail_at)
              r == IF alg.rc # 0
                   THEN BuildSignature(FnPayload(id), "unsupported")
                   ELSE IF ctx.rc # 0
                   THEN [BuildSignature(FnPayload(id), "setup_failed")
                            EXCEPT !.rc = ctx.rc]
                   ELSE BuildSignature(FnPayload(id), how)
          IN  /\ pkey_type # EVP_PKEY_EC => curve_nid = NID_secp521r1
              /\ (~type_ok \/ alg.rc # 0) => fail_at = "none"
              /\ (~type_ok \/ alg.rc # 0 \/ fail_at # "none") => how = "ok"
              /\ fail_at = "pss_context" => pkey_id = EVP_PKEY_RSA_PSS
              /\ arg' = [type_ok |-> type_ok, pkey_type |-> pkey_type,
                         curve_nid |-> curve_nid,
                         digest_nid |-> digest_nid,
                         use_rsa_pss |-> use_rsa_pss, key_uuid |-> id]
              /\ IF ~type_ok
                 THEN /\ Step(-EIO, "returned", <<"cca_get_key_type">>)
                      /\ ghost' = [alg |-> Algorithm(-EIO, "", digest_nid,
                                                     <<>>),
                                   signature_obj |-> NoObj]
                 ELSE IF alg.rc # 0
                 THEN /\ Step(r.rc, "returned", <<"cca_get_key_type">>)
                      /\ ghost' = [alg |-> alg,
                                   signature_obj |-> r.signature_obj]
                 ELSE /\ Step(r.rc, "returned",
                              <<"cca_get_key_type">> \o SignCalls(ctx))
                      /\ ghost' = [alg |-> alg,
                                   signature_obj |-> r.signature_obj]
    /\ op' = "_ekmf_build_signature"
    /\ UNCHANGED <<fnFrame, keygen>>

\* _ekmf_build_party_info(key_uuid, timestamp, digest_nid, party_info,
\* &party_info_length, &party_info_obj): arg holds the inputs and the
\* outputs' values on entry, ghost the outputs on return
FN_BuildPartyInfo ==
    /\ pc = "idle"
    /\ \E id \in KeyIds, digest_nid \in Digests, cap \in FnCapacities,
          buf \in {NoBytes, Bytes(SHA512_DIGEST_LENGTH, <<"old">>)},
          obj0 \in {NoObj, JStr("old")}, evp_rc \in {0, -EIO, -ENOMEM} :
          LET ts == GetJsonTimestamp(now).s
              r == BuildPartyInfo(id, ts, digest_nid, buf, cap, obj0, evp_rc)
          IN  /\ arg' = [key_uuid |-> id, timestamp |-> ts,
                         digest_nid |-> digest_nid, party_info |-> buf,
                         party_info_length |-> cap, party_info_obj |-> obj0]
              /\ ghost' = [party_info |-> r.party_info,
                           party_info_length |-> r.len,
                           party_info_obj |-> r.obj]
              /\ Step(r.rc, "returned", <<>>)
    /\ op' = "_ekmf_build_party_info"
    /\ UNCHANGED <<fnFrame, keygen>>

\* case EKMF_EXT_LIB_CCA of ekmf_retrieve_key: cca_generate_ecc_key_pair(
\* cca, curve, req_sess_ec_key, ..); ghost holds the curve and the key
FN_GenerateSessionKey ==
    /\ pc = "idle"
    /\ keygen < MaxKeys
    /\ \E sess_ec_curve_nid \in SessionCurves, gen_ok \in BOOLEAN :
          LET g == GenerateSessionKey(keygen, gen_ok)
          IN  /\ arg' = [sess_ec_curve_nid |-> sess_ec_curve_nid]
              /\ ghost' = [curve_nid |-> SessionCurve(sess_ec_curve_nid),
                           key |-> g.key]
              /\ keygen' = g.keygen
              /\ Step(g.rc, "returned", g.calls)
    /\ op' = "cca_generate_ecc_key_pair"
    /\ UNCHANGED fnFrame

\* _ekmf_perform_request(.., &response_obj, .., &status_code, error_msg,
\* curl, ..): arg holds *error_msg on entry, the header line, the status
\* and the body the server sends; ghost holds the outputs
FN_PerformRequest ==
    /\ pc = "idle"
    /\ \E em \in {MsgNone, MsgNull, MsgGarbage}, hdr \in HeaderLines,
          net0 \in NetResults \ {"content_type"}, st \in StatusCodes,
          body \in {NoObj, JArr, ExportResponse(Originator, AdditionalInfo,
                                                JStr(SigGood))}
                   \cup ErrorResponses :
          LET net == Transfer(net0, hdr)
              r == PerformRequest(em, net, st, body)
          IN  /\ net0 \notin {"ok", "bad_json"} =>
                    hdr = HdrJson /\ st = 200 /\ body = NoObj
              /\ net0 = "bad_json" => body = NoObj
              /\ arg' = [error_msg |-> em, hdr |-> hdr, net |-> net0,
                         status |-> st, body |-> body]
              /\ ghost' = [response |-> r.response,
                           status_code |-> r.status_code,
                           error_msg |-> r.error_msg]
              /\ Step(r.rc, "returned", <<"curl_easy_perform">>)
    /\ op' = "_ekmf_perform_request"
    /\ UNCHANGED <<fnFrame, keygen>>

\* ekmf_generate_csr: arg holds the inputs, ghost what the signing context
\* helper handed back and whether the request file was written
FN_GenerateCsr ==
    /\ pc = "idle"
    /\ \E in \in IssueInputs :
          LET r == GenerateCsr(in)
          IN  /\ arg' = in
              /\ ghost' = [reached |-> r.reached, md |-> r.md,
                           ctx |-> r.ctx, file |-> r.file]
              /\ Step(r.rc, "returned", r.calls)
    /\ op' = "ekmf_generate_csr"
    /\ UNCHANGED <<fnFrame, keygen>>

\* ekmf_generate_ss_cert: arg holds the inputs, ghost what the signing
\* context helper handed back and whether the certificate file was written
FN_GenerateSsCert ==
    /\ pc = "idle"
    /\ \E in \in IssueInputs :
          LET r == GenerateSsCert(in)
          IN  /\ arg' = in
              /\ ghost' = [reached |-> r.reached, md |-> r.md,
                           ctx |-> r.ctx, file |-> r.file]
              /\ Step(r.rc, "returned", r.calls)
    /\ op' = "ekmf_generate_ss_cert"
    /\ UNCHANGED <<fnFrame, keygen>>

\* the names of key files, and NULL for no name
KeyFiles == {"identity.key", "reenc.key"}

\* a secure key blob: the key it holds and the master key it is enciphered
\* under
KeyBlob(key, mk) == [key |-> key, mk |-> mk]

\* no such file; a file whose writing failed half way
NoFile == KeyBlob("none", "none")
PartialFile == KeyBlob("partial", "none")

\* cca_reencipher_key(cca, key_blob, key_blob_size, to_new, ..): from the
\* current to the new master key, or from the old to the current one; fails
\* when the blob is not enciphered under the master key it starts from, or
\* when the master keys are not loaded
ReencipherKey(blob, to_new, mk_loaded) ==
    LET from == IF to_new THEN "cur" ELSE "old"
        to == IF to_new THEN "new" ELSE "cur"
    IN  IF ~mk_loaded \/ blob.mk # from
        THEN [rc |-> -EIO, blob |-> blob]
        ELSE [rc |-> 0, blob |-> KeyBlob(blob.key, to)]

\* write_key_blob(filename, key_blob, key_blob_size): how tells whether the
\* file could be opened and written
WriteKeyBlob(files, name, blob, how) ==
    CASE how = "ok" -> [rc |-> 0, files |-> [files EXCEPT ![name] = blob]]
      [] how = "fopen" -> [rc |-> -EIO, files |-> files]
      [] OTHER ->
            [rc |-> -EIO, files |-> [files EXCEPT ![name] = PartialFile]]

ReencOutFile_InPlace(reenc_secure_key, identity_secure_key) ==
    identity_secure_key

\* reenc_secure_key != NULL ? reenc_secure_key : config->identity_secure_key
ReencOutFile(reenc_secure_key, identity_secure_key) ==
    IF reenc_secure_key # "NULL" THEN reenc_secure_key
    ELSE identity_secure_key

\* the inputs of ekmf_reencipher_identity_key: the arguments, the key files
\* on entry, and what the backend and the file system do
ReencInputs ==
    {in \in [args_ok : BOOLEAN,
             identity_secure_key : {"identity.key"},
             reenc_secure_key : KeyFiles \cup {"NULL"},
             to_new : BOOLEAN, ext_lib : {"CCA", "other"},
             files : [KeyFiles -> {NoFile, KeyBlob("id", "old"),
                                   KeyBlob("id", "cur"),
                                   KeyBlob("other", "cur")}],
             mk_loaded : BOOLEAN, write : {"ok", "fopen", "fwrite"}] :
        /\ in.files["identity.key"].key \in {"none", "id"}
        /\ in.files["reenc.key"].key \in {"none", "other"}
        /\ ~in.args_ok =>
              /\ in.reenc_secure_key = "NULL"
              /\ in.to_new
              /\ in.ext_lib = "CCA"
        /\ (~in.args_ok \/ in.ext_lib # "CCA"
            \/ in.files["identity.key"] = NoFile) =>
              in.mk_loaded /\ in.write = "ok"
        /\ ~in.mk_loaded => in.write = "ok"}

\* ekmf_reencipher_identity_key(config, to_new, reenc_secure_key, ext_lib,
\* verbose): files are the key files on return
ReencipherIdentityKey(in) ==
    IF ~in.args_ok
    THEN [rc |-> -EINVAL, files |-> in.files, calls |-> <<>>]
    ELSE IF in.files[in.identity_secure_key] = NoFile
    THEN [rc |-> -ENOENT, files |-> in.files, calls |-> <<"read_key_blob">>]
    ELSE IF in.ext_lib # "CCA"
    THEN [rc |-> -EINVAL, files |-> in.files, calls |-> <<"read_key_blob">>]
    ELSE LET r == ReencipherKey(in.files[in.identity_secure_key],
                                in.to_new, in.mk_loaded)
             out_file == ReencOutFile(in.reenc_secure_key,
                                      in.identity_secure_key)
             w == WriteKeyBlob(in.files, out_file, r.blob, in.write)
         IN  IF r.rc # 0
             THEN [rc |-> r.rc, files |-> in.files,
                   calls |-> <<"read_key_blob", "cca_reencipher_key">>]
             ELSE [rc |-> w.rc, files |-> w.files,
                   calls |-> <<"read_key_blob", "cca_reencipher_key",
                               "write_key_blob">>]

\* ekmf_reencipher_identity_key: arg holds the inputs and the key files on
\* entry, ghost the key files on return
FN_ReencipherIdentityKey ==
    /\ pc = "idle"
    /\ \E in \in ReencInputs :
          LET r == ReencipherIdentityKey(in)
          IN  /\ arg' = in
              /\ ghost' = [files |-> r.files]
              /\ Step(r.rc, "returned", r.calls)
    /\ op' = "ekmf_reencipher_identity_key"
    /\ UNCHANGED <<fnFrame, keygen>>

\* the function returns to its caller
FN_Return ==
    /\ pc = "returned"
    /\ pc' = "idle"
    /\ op' = "none"
    /\ arg' = NoArg
    /\ ghost' = NoGhost
    /\ rc' = 0
    /\ trace' = <<>>
    /\ UNCHANGED <<fnFrame, keygen>>

FnNext ==
    \/ FN_BuildSignature
    \/ FN_BuildPartyInfo
    \/ FN_GenerateSessionKey
    \/ FN_PerformRequest
    \/ FN_GenerateCsr
    \/ FN_GenerateSsCert
    \/ FN_ReencipherIdentityKey
    \/ FN_Return

FnSpec == FnInit /\ [][FnNext]_vars

\* a call of the function f has returned
FnReturned(f) == pc = "returned" /\ op = f

----------------------------------------------------------------------------
(* Login token validator                                                   *)

CheckReturned == pc = "returned" /\ op = "check"

\* a claim the validator can work with: absent, or a non-zero integer
WellFormed(c) == c.kind = "absent" \/ (c.kind = "int" /\ c.val # 0)

\* a claim that is present but not an integer, or present with value zero
Malformed(c) == c.kind = "other" \/ (c.kind = "int" /\ c.val = 0)

C3_MalformedClaimIsError ==
    (CheckReturned /\ tokfile.state = "jwt"
        /\ (Malformed(tokfile.exp) \/ Malformed(tokfile.nbf)))
    => rc # 0

\* C4: with no token present (no path configured, file missing, or file
\* empty) the check returns 0 with valid = false.
C4_NoTokenIsNotAnError ==
    (CheckReturned /\ tokfile.state \in {"nopath", "missing", "empty"})
    => (rc = 0 /\ valid = FALSE)

\* C5: whatever *login_token held on entry, on return a non-NULL
\* *login_token implies rc = 0 and valid = true.
C5_TokenOnlyWhenValid ==
    (CheckReturned /\ login_token \notin {PtrNone, PtrNull})
    => (rc = 0 /\ valid)

----------------------------------------------------------------------------
(* Key retrieval orchestrator                                              *)

InTrace(call) == \E i \in 1..Len(trace) : trace[i] = call

\* every occurrence of call b in the trace has a call a before it
Before(a, b) ==
    \A j \in 1..Len(trace) :
        trace[j] = b => \E i \in 1..(j - 1) : trace[i] = a

RetrieveReturned == pc = "returned" /\ op = "retrieve"

\* the response carries a string signature that verifies
SigVerifies(body) ==
    /\ Get(body, "signature").t = "string"
    /\ Get(body, "signature").s = SigGood

\* nothing of the response was verified, derived or unwrapped
NoResponseProcessing ==
    /\ ~InTrace("_ekmf_verify_signature")
    /\ ~InTrace("extract_response")
    /\ ~InTrace("_ekmf_import_key")
    /\ ~InTrace("cca_ec_dh_derive_importer")
    /\ ~InTrace("cca_import_external_key")

\* C6: ekmf_retrieve_key and ekmf_get_public_key check the login token
\* before anything else; when the check fails or reports the token invalid
\* the call makes no further collaborator call (no CURL handle, no key file,
\* no key pair, no request) and returns -EACCES.
C6_TokenCheckFirst ==
    (op \in {"retrieve", "pubkey"} /\ trace # <<>>) =>
        /\ trace[1] = "ekmf_check_login_token"
        /\ LET r == CheckLoginToken(tokfile, now, FALSE, PtrNull)
           IN  (r.rc # 0 \/ ~r.valid) =>
                  /\ trace = <<"ekmf_check_login_token">>
                  /\ curl = "NULL"
                  /\ resp = NoResp
                  /\ pc \in {"rk_out", "pk_out", "returned"}
                  /\ rc = -EACCES

\* C6 witness: a retrieval with an expired token has returned -EACCES
C6_Witness ==
    /\ RetrieveReturned
    /\ tokfile.state = "jwt"
    /\ tokfile.exp.kind = "int" /\ tokfile.exp.val # 0
    /\ now > tokfile.exp.val
    /\ rc = -EACCES
    /\ trace = <<"ekmf_check_login_token">>

\* C7: after a completed transport exchange the result of ekmf_retrieve_key
\* is fixed by the status code alone, whatever the body: 400 -> -EBADMSG,
\* 401 -> -EACCES, 403 -> -EPERM, 404 -> -ENOENT, any other code but 200
\* -> -EIO, and 200 goes on to the processing of the response.
C7_StatusAloneFixesResult ==
    (RetrieveReturned /\ resp.net = "ok") =>
        /\ resp.status = 400 => rc = -EBADMSG
        /\ resp.status = 401 => rc = -EACCES
        /\ resp.status = 403 => rc = -EPERM
        /\ resp.status = 404 => rc = -ENOENT
        /\ resp.status \notin {200, 400, 401, 403, 404} => rc = -EIO
        /\ resp.status = 200 =>
              (InTrace("_ekmf_verify_signature") \/ rc = -EBADMSG)

\* an API error body: an object with an integer code and a string message
IsApiError(body) ==
    /\ body.t = "object"
    /\ Get(body, "code").t = "int"
    /\ Get(body, "message").t = "string"

\* C8: an error status (>= 400) with a body {code, message} returns the
\* error kind of the status; the caller who asked for a message gets the
\* server's code and message; nothing of that response is verified,
\* derived or unwrapped.
C8_ApiErrorReported ==
    (RetrieveReturned /\ resp.net = "ok" /\ resp.status >= 400
        /\ IsApiError(resp.body))
    => /\ resp.status = 400 => rc = -EBADMSG
       /\ resp.status = 401 => rc = -EACCES
       /\ resp.status = 403 => rc = -EPERM
       /\ resp.status = 404 => rc = -ENOENT
       /\ resp.status \notin {400, 401, 403, 404} => rc = -EIO
       /\ arg.error_msg # MsgNone =>
             error_msg = Msg("EKMFWeb", Get(resp.body, "code").s,
                             Get(resp.body, "message").s)
       /\ arg.error_msg = MsgNone => error_msg = MsgNone
       /\ NoResponseProcessing

\* C8 witness: 403 with {code: 7, message: "no permission"} gave -EPERM
\* and the message
C8_Witness ==
    /\ RetrieveReturned /\ resp.net = "ok" /\ resp.status = 403
    /\ IsApiError(resp.body)
    /\ rc = -EPERM
    /\ error_msg.text = "no permission"
    /\ NoResponseProcessing

C10_VerifyFailsClosed ==
    op = "retrieve" =>
        /\ Before("_ekmf_verify_signature", "extract_response")
        /\ Before("_ekmf_verify_signature", "_ekmf_import_key")
        /\ Before("_ekmf_import_key", "cca_ec_dh_derive_importer")
        /\ Before("_ekmf_import_key", "cca_import_external_key")
        /\ (pc \in {"rk_extract", "rk_import"}
               \/ InTrace("extract_response")
               \/ InTrace("_ekmf_import_key"))
           => SigVerifies(resp.body)
        /\ (pc \in {"rk_out", "returned"}
               /\ InTrace("_ekmf_verify_signature")
               /\ ~SigVerifies(resp.body))
           => rc # 0

\* C10 witness: a response with a signature that does not verify was
\* rejected before any of it was used
C10_Witness ==
    /\ RetrieveReturned
    /\ InTrace("_ekmf_verify_signature")
    /\ Get(resp.body, "signature") = JStr(SigBad)
    /\ rc # 0
    /\ ~InTrace("extract_response") /\ ~InTrace("_ekmf_import_key")

----------------------------------------------------------------------------
\* the member names of a json object, in order
Keys(j) == [i \in 1..Len(j.o) |-> j.o[i][1]]

\* no token of the text is the member name signature
NoSignatureIn(bytes) == \A i \in 1..Len(bytes) : bytes[i] # "signature"

\* the party info a requester computes for key id and time t
ExpectedPartyInfo(id, t) == <<"sha256", id, ToString(t)>>

\* C11: the signature member is never part of the bytes that are signed or
\* verified: the bytes signed are the serialization of the request that was
\* sent with its signature member removed, and the bytes verified are the
\* serialization of the response with its signature member removed.
C11_SignatureNotSigned ==
    op = "retrieve" =>
        /\ NoSignatureIn(ghost.signed)
        /\ NoSignatureIn(ghost.verified)
        /\ ghost.sent # NoObj =>
              /\ HasKey(ghost.sent, "signature")
              /\ ghost.signed = Serialize(Del(ghost.sent, "signature"))
        /\ (InTrace("_ekmf_verify_signature")
               /\ IsType(Get(resp.body, "signature"), "string")) =>
              ghost.verified = Serialize(Del(resp.body, "signature"))

\* C11 witness: a retrieval that signed its request and verified the
\* signed response
C11_Witness ==
    /\ RetrieveReturned /\ rc = 0
    /\ HasKey(ghost.sent, "signature") /\ HasKey(resp.body, "signature")
    /\ ghost.signed # <<>> /\ ghost.verified # <<>>

\* C12: _ekmf_verify_signature detaches a string-typed signature and
\* leaves the other members alone; without a string-typed signature it
\* returns an error and leaves the response object unchanged.
C12_VerifyDetachesSignature ==
    (op = "retrieve" /\ InTrace("_ekmf_verify_signature")) =>
        IF IsType(Get(resp.body, "signature"), "string")
        THEN response_obj = Del(resp.body, "signature")
        ELSE rc # 0 /\ response_obj = resp.body

\* the text of the request for key id, ephemeral key k and time t
RequestBytes(id, k, t) ==
    <<"{", "originator", ":", "{",
         "session", ":", "{", "kty", ":", "\"", "EC", "\"", ",",
                              "x", ":", "\"", ToString(k), "\"", "}", ",",
         "partyInfo", ":", "\"", ToString(ExpectedPartyInfo(id, t)), "\"",
       "}", ",",
       "additionalInfo", ":", "{",
         "kdf", ":", "\"", "ANS-X9.63-CCA", "\"", ",",
         "requestedKey", ":", "\"", id, "\"", ",",
         "timestamp", ":", "\"", ToString(t), "\"",
       "}",
     "}">>

\* C13: a request that is sent has the members originator, additionalInfo,
\* signature in this order, originator holds session then partyInfo,
\* additionalInfo holds kdf, requestedKey, timestamp; the signed bytes are
\* fixed by key id, ephemeral public key and timestamp alone.
C13_RequestFieldOrder ==
    (op = "retrieve" /\ ghost.sent # NoObj) =>
        /\ Keys(ghost.sent) = <<"originator", "additionalInfo", "signature">>
        /\ Keys(Get(ghost.sent, "originator")) = <<"session", "partyInfo">>
        /\ Keys(Get(ghost.sent, "additionalInfo"))
              = <<"kdf", "requestedKey", "timestamp">>
        /\ ghost.signed
              = RequestBytes(arg.key_uuid, locals.req_sess_ec_key, now)

\* C13 witness: the request of a second retrieval was sent
C13_Witness ==
    /\ RetrieveReturned
    /\ ghost.sent # NoObj
    /\ locals.req_sess_ec_key = 2

\* C14: the requester's party info is made before the request is sent and
\* stays as it is: it is what the partyInfo member of the sent request
\* encodes, and what the key derivation is given as the requester's part.
C14_PartyInfoFixedBeforeSend ==
    op = "retrieve" =>
        /\ Before("_ekmf_build_party_info", "_ekmf_perform_request")
        /\ ghost.sent # NoObj =>
              /\ locals.req_party_info.len = SHA256_DIGEST_LENGTH
              /\ Get(Get(ghost.sent, "originator"), "partyInfo")
                    = JStr(Base64Url(locals.req_party_info))
        /\ ghost.derive_in # NoDerive =>
              LET fed == SubSeq(ghost.derive_in.party_info.val, 1,
                                Len(locals.req_party_info.val))
              IN  Get(Get(ghost.sent, "originator"), "partyInfo")
                    = JStr(Base64Url(Bytes(SHA256_DIGEST_LENGTH, fed)))

\* C14 witness: a retrieval derived the transport key after its request
\* was sent
C14_Witness ==
    /\ RetrieveReturned
    /\ ghost.sent # NoObj
    /\ ghost.derive_in # NoDerive
    /\ InTrace("cca_ec_dh_derive_importer")

\* C15: the party info given to the transport key derivation is the
\* requester's bytes followed by the responder's bytes, and its length is
\* the sum of the two lengths.
C15_CombinedPartyInfo ==
    (op = "retrieve" /\ ghost.derive_in # NoDerive) =>
        LET responder == RespPartyInfo(resp.body)
        IN  /\ ghost.derive_in.party_info.val
                  = ExpectedPartyInfo(arg.key_uuid, now) \o responder.val
            /\ ghost.derive_in.party_info.len
                  = SHA256_DIGEST_LENGTH + responder.len

\* C15 witness: a derivation with the two-byte party info of a responder
C15_Witness ==
    /\ RetrieveReturned
    /\ InTrace("cca_ec_dh_derive_importer")
    /\ RespPartyInfo(resp.body).len = 2
    /\ ghost.derive_in.party_info.len = SHA256_DIGEST_LENGTH + 2

\* C16: when a key retrieval returns, on whatever path, the buffers of the
\* ephemeral session key blob and of the transport key hold no key.
C16_SensitiveBuffersZeroed ==
    RetrieveReturned =>
        /\ locals.req_sess_ec_key = 0
        /\ locals.transport_key = <<>>

\* how often the call has called a collaborator
Count(call) == Cardinality({i \in 1..Len(trace) : trace[i] = call})

\* C17: one retrieval generates the ephemeral key pair, signs, sends and
\* unwraps at most once each; the key pair a call works with was generated
\* in this call and is none of the key pairs generated before it.
C17_NoRetryFreshKey ==
    op = "retrieve" =>
        /\ Count("cca_generate_ecc_key_pair") <= 1
        /\ Count("_ekmf_build_signature") <= 1
        /\ Count("_ekmf_perform_request") <= 1
        /\ Count("cca_import_external_key") <= 1
        /\ locals.req_sess_ec_key # 0 =>
              /\ InTrace("cca_generate_ecc_key_pair")
              /\ locals.req_sess_ec_key > ghost.keygen0
        /\ InTrace("cca_ec_dh_derive_importer") =>
              /\ ghost.derive_in.sess_key = locals.req_sess_ec_key
              /\ ghost.derive_in.sess_key > ghost.keygen0

\* C17 witness: a second retrieval, with a CURL handle that is reused,
\* derived the transport key from its own second key pair
C17_Witness ==
    /\ RetrieveReturned
    /\ arg.curl_handle = "H1"
    /\ ghost.keygen0 = 1
    /\ InTrace("cca_ec_dh_derive_importer")
    /\ ghost.derive_in.sess_key = 2

\* the collaborator calls of a retrieval in which every step succeeds
RetrieveSteps ==
    <<"ekmf_check_login_token", "read_public_key", "read_key_blob",
      "cca_generate_ecc_key_pair", "cca_get_ecc_pub_key_as_json_web_key",
      "get_json_timestamp", "_ekmf_build_party_info",
      "_ekmf_build_signature", "curl_easy_escape", "_ekmf_perform_request",
      "_ekmf_verify_signature", "extract_response", "_ekmf_import_key">>
    \o ImportCalls

IsStep(call) == call \notin {"curl_easy_init", "curl_easy_cleanup"}

\* the response has the members the retrieval takes from it
ResponseUsable(body) ==
    LET orig == Get(body, "originator")
        addl == Get(body, "additionalInfo")
    IN  /\ IsType(orig, "object")
        /\ IsType(Get(orig, "session"), "object")
        /\ IsType(Get(orig, "partyInfo"), "string")
        /\ IsType(addl, "object")
        /\ IsType(Get(addl, "exportedKey"), "object")

\* C18: ekmf_retrieve_key is fail-fast: once a step has failed the call is
\* at its exit with a nonzero rc and no later step is made; a step that
\* works on the response is made only when the steps before it succeeded;
\* the call returns 0 only when every step was made and succeeded.
C18_FailFast ==
    op = "retrieve" =>
        /\ rc # 0 => pc \in {"rk_out", "returned", "crashed"}
        /\ InTrace("_ekmf_verify_signature") =>
              resp.status = 200 /\ IsType(resp.body, "object")
        /\ InTrace("extract_response") => SigVerifies(resp.body)
        /\ InTrace("_ekmf_import_key") => ResponseUsable(resp.body)
        /\ (pc = "returned" /\ rc = 0) =>
              /\ SelectSeq(trace, IsStep) = RetrieveSteps
              /\ SigVerifies(resp.body) /\ ResponseUsable(resp.body)

\* C18 witness: the extraction failed on a verified response, and the
\* call returned the error without importing anything
C18_Witness ==
    /\ RetrieveReturned
    /\ rc = -EBADMSG
    /\ InTrace("extract_response")
    /\ ~InTrace("_ekmf_import_key")

\* C19: a retrieval that ends with an error has delivered no key: the
\* caller's key_blob is as it was on entry; as long as the unwrap was not
\* called, key_blob and *key_blob_length are as they were on entry.
C19_NoKeyOnError ==
    op = "retrieve" =>
        /\ rc # 0 => key_blob = EntryBlob(arg.key_blob_length)
        /\ ~InTrace("cca_import_external_key") =>
              /\ key_blob = EntryBlob(arg.key_blob_length)
              /\ key_blob_length = arg.key_blob_length

\* C19 witness: the import failed after the transport key was derived and
\* before the unwrap
C19_Witness ==
    /\ RetrieveReturned
    /\ rc # 0
    /\ InTrace("cca_ec_dh_derive_importer")
    /\ locals.transport_key # <<>>
    /\ ~InTrace("cca_import_external_key")
    /\ key_blob = EntryBlob(arg.key_blob_length)

\* C20: when the unwrapped key is larger than the caller's buffer the
\* retrieval fails with -ERANGE and *key_blob_length is the size that is
\* required; when the buffer is large enough the key is stored and
\* *key_blob_length is its size.
C20_BufferSizing ==
    (RetrieveReturned /\ ghost.keysize > 0) =>
        IF arg.key_blob_length < ghost.keysize
        THEN /\ rc = -ERANGE
             /\ key_blob_length = ghost.keysize
             /\ key_blob = EntryBlob(arg.key_blob_length)
        ELSE /\ rc = 0
             /\ key_blob_length = ghost.keysize
             /\ key_blob = Bytes(ghost.keysize, <<"unwrapped">>)

\* C20 witness: a buffer of one byte for a key of two bytes
C20_Witness ==
    /\ RetrieveReturned
    /\ arg.key_blob_length = 1
    /\ ghost.keysize = 2
    /\ rc = -ERANGE
    /\ key_blob_length = 2


----------------------------------------------------------------------------
(* Progress of ekmf_retrieve_key: the calls of one caller whose login      *)
(* token is valid or missing; every step of a call that has begun is       *)
(* eventually taken, since the transport call and the backend primitives   *)
(* return.                                                                 *)

\* the login token files of the progress specification
LiveTokenFiles ==
    {[state |-> "missing", exp |-> NoClaim, nbf |-> NoClaim],
     [state |-> "jwt", exp |-> [kind |-> "int", val |-> MaxTime],
      nbf |-> NoClaim]}

LiveInit ==
    /\ Init
    /\ now = 1
    /\ tokfile \in LiveTokenFiles

\* a step of a call of ekmf_retrieve_key that has begun
RK_Step ==
    \/ RK_CheckToken
    \/ RK_GetCurlHandle
    \/ RK_ReadServerPubkey
    \/ RK_ReadIdentityKey
    \/ RK_GenerateSessionKey
    \/ RK_BuildPartyInfo
    \/ RK_BuildRequest
    \/ RK_Sign
    \/ RK_BuildUri
    \/ RK_PerformRequest
    \/ RK_StatusSwitch
    \/ RK_VerifySignature
    \/ RK_ExtractResponse
    \/ RK_ImportKey
    \/ RK_Out

LiveNext ==
    \/ RK_Call
    \/ RK_Step
    \/ Return

LiveSpec == LiveInit /\ [][LiveNext]_vars /\ WF_vars(RK_Step)

----------------------------------------------------------------------------
(* Two calls of ekmf_retrieve_key made by two threads of one process with  *)
(* distinct CURL handles.  pc, op, arg, rc, curl, resp, response_obj,      *)
(* ghost, key_blob and key_blob_length hold one value per call, locals     *)
(* one value per stack frame; the backend's key counter is shared.         *)

Procs == {1, 2}

LocalsOf_Static(p) == 1

\* the locals of ekmf_retrieve_key and _ekmf_import_key are automatic
\* variables: the call of thread p has them in its own stack frame
LocalsOf(p) == p

\* the caller's CURL handle of thread p
HandleOf(p) == IF p = 1 THEN "H1" ELSE "H3"

\* the responses the server gives to the two calls
ConcBodies ==
    {ExportResponse(Originator, AdditionalInfo, JStr(SigGood)),
     ExportResponse(JObj(<< <<"session", Session>>,
                            <<"partyInfo", JStr("cGk")>> >>),
                    AdditionalInfo, JStr(SigGood)),
     ExportResponse(Originator, AdditionalInfo, JInt("1"))}

\* what is recorded of a call: the key pair the backend generated for it,
\* the request it sent, what the derivation was given, and the outcome of
\* the backend calls of the import
NoConcGhost ==
    [key |-> 0, sent |-> NoObj, derive_in |-> NoDerive, fail_at |-> 0,
     keysize |-> 0]

ConcInit ==
    /\ now \in 1..MaxTime
    /\ tokfile = [state |-> "jwt", exp |-> [kind |-> "int", val |-> MaxTime],
                  nbf |-> NoClaim]
    /\ pc = [p \in Procs |-> "idle"]
    /\ op = [p \in Procs |-> "none"]
    /\ arg = [p \in Procs |-> NoArg]
    /\ rc = [p \in Procs |-> 0]
    /\ valid = FALSE
    /\ login_token = PtrNone
    /\ curl_handle = [p \in Procs |-> HandleOf(p)]
    /\ curl = [p \in Procs |-> "NULL"]
    /\ error_msg = MsgNone
    /\ status_code = 0
    /\ response_obj = [p \in Procs |-> NoObj]
    /\ resp = [p \in Procs |-> NoObj]
    /\ trace = <<>>
    /\ locals = [f \in Procs |-> NoLocals]
    /\ ghost = [p \in Procs |-> NoConcGhost]
    /\ key_blob = [p \in Procs |-> NoBytes]
    /\ key_blob_length = [p \in Procs |-> 0]
    /\ keygen = 0

\* what no step of a call changes
concFrame ==
    <<env, tokenOut, curl_handle, error_msg, status_code, trace, op>>

\* thread p sets rc and goes to the next position
ConcStep(p, code, next) ==
    /\ rc' = [rc EXCEPT ![p] = code]
    /\ pc' = [pc EXCEPT ![p] = IF code # 0 THEN "rk_out" ELSE next]

\* thread p writes the locals of its call
ConcLocals(p, new) == locals' = [locals EXCEPT ![LocalsOf(p)] = new]

\* thread p calls ekmf_retrieve_key; the login token is checked, the CURL
\* handle taken and the two key files read: none of these steps touches
\* the keying locals
CC_Call(p) ==
    /\ pc[p] = "idle"
    /\ \E id \in KeyIds, pre \in {0, -EIO} :
          LET t == CheckLoginToken(tokfile, now, FALSE, PtrNull)
              h == GetCurlHandle(curl_handle[p], TRUE)
          IN  /\ arg' = [arg EXCEPT ![p] =
                           [NoArg EXCEPT !.curl_handle = curl_handle[p],
                                         !.key_uuid = id,
                                         !.key_blob_length = MaxKeyLen]]
              /\ curl' = [curl EXCEPT ![p] = h.curl]
              /\ key_blob' = [key_blob EXCEPT ![p] = EntryBlob(MaxKeyLen)]
              /\ key_blob_length' = [key_blob_length EXCEPT ![p] = MaxKeyLen]
              /\ IF TokenCheckFailed(t) THEN ConcStep(p, -EACCES, "rk_out")
                 ELSE IF h.rc # 0 THEN ConcStep(p, -EIO, "rk_out")
                 ELSE ConcStep(p, pre, "rk_session")
    /\ ConcLocals(p, NoLocals)
    /\ UNCHANGED <<env, tokenOut, curl_handle, error_msg, status_code, trace,
                   ghost, resp, response_obj, keygen>>
    /\ op' = [op EXCEPT ![p] = "retrieve"]

\* cca_generate_ecc_key_pair(.., req_sess_ec_key, ..) and the key's JWK
CC_GenerateSessionKey(p) ==
    /\ pc[p] = "rk_session"
    /\ \E gen_ok \in BOOLEAN :
          LET g == GenerateSessionKey(keygen, gen_ok)
              l == locals[LocalsOf(p)]
          IN  /\ keygen' = g.keygen
              /\ ghost' = [ghost EXCEPT ![p].key = g.key]
              /\ ConcStep(p, g.rc, "rk_partyinfo")
              /\ IF g.rc # 0 THEN UNCHANGED locals
                 ELSE ConcLocals(p, [l EXCEPT
                        !.req_sess_ec_key = g.key,
                        !.req_sess_jwk_obj = SessionJwk(g.key)])
    /\ UNCHANGED <<concFrame, arg, curl, resp, response_obj, key_blob,
                   key_blob_length>>

\* req_timestamp_obj = get_json_timestamp(); _ekmf_build_party_info(..)
CC_BuildPartyInfo(p) ==
    /\ pc[p] = "rk_partyinfo"
    /\ LET l == locals[LocalsOf(p)]
           ts == GetJsonTimestamp(now)
           r == BuildPartyInfo(arg[p].key_uuid, ts.s, NID_sha256,
                               l.req_party_info, SHA512_DIGEST_LENGTH,
                               l.req_party_info_obj, 0)
       IN  /\ ConcStep(p, r.rc, "rk_request")
           /\ ConcLocals(p, [l EXCEPT !.req_timestamp_obj = ts,
                                      !.req_party_info = r.party_info,
                                      !.req_party_info_obj = r.obj])
    /\ UNCHANGED <<concFrame, arg, curl, resp, response_obj, ghost, key_blob,
                   key_blob_length, keygen>>

\* the request object is built of the locals and signed
CC_BuildRequest(p) ==
    /\ pc[p] = "rk_request"
    /\ \E how \in {"ok", "jws_failed"} :
          LET l == locals[LocalsOf(p)]
              req == BuildRequest(arg[p].key_uuid, l.req_sess_jwk_obj,
                                  l.req_timestamp_obj, l.req_party_info_obj)
              r == SignRequest(req, how)
          IN  /\ ConcStep(p, r.rc, "rk_perform")
              /\ ConcLocals(p, [l EXCEPT !.request_obj = r.request_obj])
    /\ UNCHANGED <<concFrame, arg, curl, resp, response_obj, ghost, key_blob,
                   key_blob_length, keygen>>

\* _ekmf_perform_request(.., request_obj, .., &response_obj, .., curl, ..)
\* on the handle of the call, and the switch on the status code
CC_PerformRequest(p) ==
    /\ pc[p] = "rk_perform"
    /\ \E net \in {"ok", "curl_error"}, body \in ConcBodies :
          LET r == PerformRequest(MsgNone, net, 200, body)
          IN  /\ net # "ok" => body = ExportResponse(Originator,
                                         AdditionalInfo, JStr(SigGood))
              /\ resp' = [resp EXCEPT ![p] = body]
              /\ response_obj' = [response_obj EXCEPT ![p] = r.response]
              /\ ConcStep(p, IF r.rc > 0 THEN -EIO ELSE r.rc, "rk_verify")
    /\ ghost' = [ghost EXCEPT ![p].sent = locals[LocalsOf(p)].request_obj]
    /\ UNCHANGED <<concFrame, arg, curl, locals, key_blob, key_blob_length,
                   keygen>>

\* _ekmf_verify_signature(response_obj, ..) and the members of the response
CC_VerifyAndExtract(p) ==
    /\ pc[p] = "rk_verify"
    /\ LET v == VerifySignature(response_obj[p])
           e == ExtractResponse(v.obj)
           l == locals[LocalsOf(p)]
       IN  /\ response_obj' = [response_obj EXCEPT ![p] = v.obj]
           /\ ConcStep(p, IF v.rc # 0 THEN v.rc ELSE e, "rk_import")
           /\ IF v.rc # 0 \/ e # 0 THEN UNCHANGED locals
              ELSE ConcLocals(p, [l EXCEPT
                     !.resp_party_info = RespPartyInfo(v.obj)])
    /\ UNCHANGED <<concFrame, arg, curl, resp, ghost, key_blob,
                   key_blob_length, keygen>>

\* rc = _ekmf_import_key(req_sess_ec_key, .., req_party_info, ..,
\* resp_party_info, .., key_blob, key_blob_length, ..)
CC_ImportKey(p) ==
    /\ pc[p] = "rk_import"
    /\ \E fail_at \in {0, 2, 4}, keysize \in 1..MaxKeyLen :
          LET l == locals[LocalsOf(p)]
              r == ImportKey(l.req_sess_ec_key, l.req_party_info,
                             l.resp_party_info,
                             Get(Get(response_obj[p], "originator"),
                                 "session"),
                             key_blob[p], key_blob_length[p], fail_at,
                             keysize)
          IN  /\ rc' = [rc EXCEPT ![p] = r.rc]
              /\ pc' = [pc EXCEPT ![p] = "rk_out"]
              /\ ConcLocals(p, [l EXCEPT !.transport_key = r.transport_key])
              /\ ghost' = [ghost EXCEPT ![p].derive_in = r.derive_in,
                                        ![p].fail_at = fail_at,
                                        ![p].keysize = keysize]
              /\ key_blob' = [key_blob EXCEPT ![p] = r.key_blob]
              /\ key_blob_length' = [key_blob_length EXCEPT
                                        ![p] = r.key_blob_length]
    /\ UNCHANGED <<concFrame, arg, curl, resp, response_obj, keygen>>

\* out: the handle is given back, the objects are put, return rc; putting
\* a member that was released before aborts the process or goes unnoticed
CC_Out(p) ==
    /\ pc[p] = "rk_out"
    /\ \/ pc' = [pc EXCEPT ![p] = "returned"]
       \/ /\ HasFreedMember(response_obj[p])
          /\ pc' = [q \in Procs |-> "crashed"]
    /\ UNCHANGED <<concFrame, arg, rc, curl, resp, response_obj, locals,
                   ghost, key_blob, key_blob_length, keygen>>

ConcNext ==
    \E p \in Procs :
        \/ CC_Call(p)
        \/ CC_GenerateSessionKey(p)
        \/ CC_BuildPartyInfo(p)
        \/ CC_BuildRequest(p)
        \/ CC_PerformRequest(p)
        \/ CC_VerifyAndExtract(p)
        \/ CC_ImportKey(p)
        \/ CC_Out(p)

ConcSpec == ConcInit /\ [][ConcNext]_vars

----------------------------------------------------------------------------
(* Algorithm selection, party info and session curve (FnSpec).             *)

\* the digest and the number in the JWS name a caller's RSA digest selects
RsaDigest(digest_nid) == IF digest_nid = 0 THEN NID_sha512 ELSE digest_nid

RsaBits(nid) ==
    CASE nid = NID_sha256 -> "256"
      [] nid = NID_sha384 -> "384"
      [] nid = NID_sha512 -> "512"
      [] OTHER -> "?"

\* a call of _ekmf_build_signature that learnt the key's type has returned
SignatureReturned ==
    FnReturned("_ekmf_build_signature") /\ arg.type_ok

\* C21: for an EC identity key the curve alone fixes algorithm and digest,
\* whatever digest and RSA-PSS choice the caller made: P-256 gives ES256
\* with SHA-256, P-384 ES384 with SHA-384, P-521 ES512 with SHA-512; any
\* other curve returns -EINVAL and there is no signature object.
C21_EcAlgorithmFromCurve ==
    (SignatureReturned /\ arg.pkey_type = EVP_PKEY_EC) =>
        LET c == arg.curve_nid
            picked == <<ghost.alg.rc, ghost.alg.jws_alg, ghost.alg.digest_nid>>
        IN  /\ c = NID_X9_62_prime256v1 => picked = <<0, "ES256", NID_sha256>>
            /\ c = NID_secp384r1 => picked = <<0, "ES384", NID_sha384>>
            /\ c = NID_secp521r1 => picked = <<0, "ES512", NID_sha512>>
            /\ c \notin {NID_X9_62_prime256v1, NID_secp384r1, NID_secp521r1}
                  => rc = -EINVAL /\ ghost.signature_obj = NoObj
            /\ ghost.alg.pss = <<>>
            /\ ghost.signature_obj # NoObj => rc = 0

\* an EC key on P-384 was signed with although the caller asked for
\* SHA-256 and RSA-PSS
C21_Witness ==
    /\ SignatureReturned
    /\ arg.pkey_type = EVP_PKEY_EC
    /\ arg.curve_nid = NID_secp384r1
    /\ arg.digest_nid = NID_sha256
    /\ arg.use_rsa_pss
    /\ rc = 0
    /\ ghost.alg.jws_alg = "ES384"
    /\ ghost.signature_obj # NoObj

\* C22: for an RSA identity key the caller's digest SHA-256/384/512 selects
\* RS256/384/512, or PS256/384/512 with use_rsa_pss; an unspecified digest
\* (0) selects SHA-512; for RSA-PSS the MGF digest is the signing digest
\* and the salt length is the digest length; any other digest returns
\* -EINVAL and there is no signature object.
C22_RsaAlgorithmFromDigest ==
    (SignatureReturned /\ arg.pkey_type \in {EVP_PKEY_RSA, EVP_PKEY_RSA_PSS})
    =>  LET d == RsaDigest(arg.digest_nid)
            name == (IF arg.use_rsa_pss THEN "PS" ELSE "RS") \o RsaBits(d)
        IN  IF d \in {NID_sha256, NID_sha384, NID_sha512}
            THEN /\ ghost.alg.rc = 0
                 /\ ghost.alg.jws_alg = name
                 /\ ghost.alg.digest_nid = d
                 /\ IF arg.use_rsa_pss
                    THEN /\ ghost.alg.pss.mgf_digest_nid = d
                         /\ ghost.alg.pss.salt_len = RSA_PSS_SALTLEN_DIGEST
                    ELSE ghost.alg.pss = <<>>
                 /\ ghost.signature_obj # NoObj => rc = 0
            ELSE rc = -EINVAL /\ ghost.signature_obj = NoObj

\* an RSA key was signed with, with RSA-PSS and no digest given
C22_Witness ==
    /\ SignatureReturned
    /\ arg.pkey_type = EVP_PKEY_RSA
    /\ arg.use_rsa_pss
    /\ arg.digest_nid = 0
    /\ rc = 0
    /\ ghost.alg.jws_alg = "PS512"
    /\ ghost.signature_obj # NoObj

\* C23: _ekmf_build_party_info fails with -ERANGE and leaves the buffer,
\* the length and the JSON output as they were whenever the capacity is
\* smaller than the digest size; when it succeeds the length is the digest
\* size (that of SHA-256 when no digest is given) and the buffer holds the
\* digest of the key id followed by the timestamp.
C23_PartyInfoRange ==
    FnReturned("_ekmf_build_party_info") =>
        LET md == IF arg.digest_nid = 0 THEN NID_sha256 ELSE arg.digest_nid
            size == MdSize(md)
        IN  size > 0 =>
              /\ arg.party_info_length < size =>
                    /\ rc = -ERANGE
                    /\ ghost.party_info = arg.party_info
                    /\ ghost.party_info_length = arg.party_info_length
                    /\ ghost.party_info_obj = arg.party_info_obj
              /\ arg.party_info_length >= size => rc # -ERANGE
              /\ rc = 0 =>
                    /\ ghost.party_info_length = size
                    /\ ghost.party_info
                          = Bytes(size, <<MdName(md), arg.key_uuid,
                                          arg.timestamp>>)

\* a buffer one byte short of a SHA-384 digest, with outputs that held
\* something before the call
C23_Witness ==
    /\ FnReturned("_ekmf_build_party_info")
    /\ arg.digest_nid = NID_sha384
    /\ arg.party_info_length = 47
    /\ arg.party_info # NoBytes
    /\ arg.party_info_obj # NoObj
    /\ rc = -ERANGE
    /\ ghost.party_info = arg.party_info

\* C24: without a session curve (sess_ec_curve_nid = 0) the ephemeral key
\* pair is generated on P-521 (secp521r1); with one, on exactly that curve.
C24_SessionCurve ==
    (FnReturned("cca_generate_ecc_key_pair") /\ InTrace("cca_generate_ecc_key_pair"))
    => ghost.curve_nid = (IF arg.sess_ec_curve_nid = 0
                          THEN NID_secp521r1
                          ELSE arg.sess_ec_curve_nid)

\* a key pair was generated for a caller that named no curve
C24_Witness ==
    /\ FnReturned("cca_generate_ecc_key_pair")
    /\ arg.sess_ec_curve_nid = 0
    /\ rc = 0
    /\ ghost.key > 0
    /\ ghost.curve_nid = NID_secp521r1


\* C25: every call of ekmf_retrieve_key that has begun eventually returns,
\* with the key or with one error, given that the transport call and every
\* backend primitive return.
C25_RetrieveTerminates ==
    (op = "retrieve" /\ pc # "returned") ~> (pc = "returned")


----------------------------------------------------------------------------
(* Concurrent retrievals (ConcSpec).                                       *)

\* what call p gets when it runs alone on its own inputs: the request of
\* its key id, its key pair and its timestamp, and the import of its key
\* pair, its party info and the party info of its response
AloneRequest(p) ==
    LET ts == GetJsonTimestamp(now)
        pi == BuildPartyInfo(arg[p].key_uuid, ts.s, NID_sha256, NoBytes,
                             SHA512_DIGEST_LENGTH, NoObj, 0)
    IN  BuildRequest(arg[p].key_uuid, SessionJwk(ghost[p].key), ts, pi.obj)

AloneImport(p) ==
    LET ts == GetJsonTimestamp(now)
        pi == BuildPartyInfo(arg[p].key_uuid, ts.s, NID_sha256, NoBytes,
                             SHA512_DIGEST_LENGTH, NoObj, 0)
    IN  ImportKey(ghost[p].key, pi.party_info, RespPartyInfo(resp[p]),
                  Get(Get(resp[p], "originator"), "session"),
                  EntryBlob(MaxKeyLen), MaxKeyLen, ghost[p].fail_at,
                  ghost[p].keysize)

\* call p got as far as the import and has returned
Imported(p) == pc[p] = "returned" /\ ghost[p].keysize > 0

----------------------------------------------------------------------------
(* The content type of a response (FnSpec).                                *)

\* the header lines whose Content-Type is not an accepted JSON type
Unaccepted == {HdrHtml, HdrText, HdrJsonLate, HdrEmpty}

\* C29: a response with a Content-Type header whose value is not an
\* accepted JSON type makes _ekmf_perform_request fail with -EBADMSG and
\* the message "Unexpected response Content-Type", whatever the status code
\* is, and no response object is returned; with an accepted type, or
\* without the header, the content type makes no request fail.
C29_ContentTypeChecked ==
    (FnReturned("_ekmf_perform_request") /\ arg.net \in {"ok", "bad_json"})
    =>  IF arg.hdr \in Unaccepted
        THEN /\ rc = -EBADMSG
             /\ ghost.response = NoObj
             /\ arg.error_msg # MsgNone =>
                   ghost.error_msg
                       = Msg("lib", "", "Unexpected response Content-Type")
        ELSE /\ ghost.error_msg
                    # Msg("lib", "", "Unexpected response Content-Type")
             /\ (arg.net = "ok" /\ arg.status < 400) =>
                    rc = 0 /\ ghost.response = arg.body

\* the server answered 200 with a JSON body that it declared as text/html
C29_Witness ==
    /\ FnReturned("_ekmf_perform_request")
    /\ arg.net = "ok"
    /\ arg.hdr = HdrHtml
    /\ arg.status = 200
    /\ arg.body # NoObj
    /\ arg.error_msg = MsgGarbage
    /\ rc = -EBADMSG
    /\ ghost.response = NoObj


----------------------------------------------------------------------------
(* Return values, the CURL handle and the certificate chain (Spec).        *)

\* C27: every public operation returns zero or a negative errno; no path
\* returns a positive value to the caller.
C27_NoPositiveReturn ==
    (pc = "returned" /\ op \in {"certchain", "check", "pubkey", "retrieve"})
    => rc <= 0

\* C28: the CURL handle of ekmf_retrieve_key and ekmf_get_public_key: with
\* curl_handle = NULL a new handle is made and destroyed before the call
\* returns; with *curl_handle = NULL a new handle is made and handed back
\* in *curl_handle; with a handle in *curl_handle that handle is used and
\* handed back unchanged.  Once a handle is acquired, every return destroys
\* it or hands it back.
C28_HandleLifecycle ==
    (pc = "returned" /\ op \in {"pubkey", "retrieve"} /\ curl # "NULL") =>
        CASE arg.curl_handle = "none" ->
                /\ InTrace("curl_easy_init")
                /\ InTrace("curl_easy_cleanup")
          [] arg.curl_handle = "NULL" ->
                /\ InTrace("curl_easy_init")
                /\ ~InTrace("curl_easy_cleanup")
                /\ curl_handle = curl
          [] OTHER ->
                /\ ~InTrace("curl_easy_init")
                /\ ~InTrace("curl_easy_cleanup")
                /\ curl = arg.curl_handle
                /\ curl_handle = arg.curl_handle

\* a call of ekmf_get_server_cert_chain has returned after a transfer
CertChainTransferred ==
    pc = "returned" /\ op = "certchain" /\ Len(ghost.attempts) > 0

\* C30: ekmf_get_server_cert_chain makes at most two transfers, the first
\* with peer verification, the second only after the first failed with a
\* CA verification error, and without peer verification; verified is set
\* to true exactly when the first transfer succeeded; the CA bundle file is
\* written only when the server certificate was not verified.  A call of
\* ekmf_retrieve_key or ekmf_get_public_key makes one request at most, and
\* a CA verification error fails it.
C30_RetryOnlyForDiscovery ==
    /\ (pc = "returned" /\ op = "certchain") =>
          /\ ghost.attempts \in {<<>>, <<1>>, <<1, 0>>}
          /\ Count("curl_easy_perform") = Len(ghost.attempts)
          /\ ghost.attempts = <<1, 0>> => arg.first = CURLE_SSL_CACERT
          /\ ghost.cert_verified = "true" <=>
                (CertChainTransferred /\ arg.first = 0
                    /\ arg.verified0 # "none")
          /\ ghost.cert_verified = "false" =>
                (ghost.attempts = <<1, 0>> /\ arg.second = 0)
          /\ "ca_bundle_pem" \in ghost.files =>
                (ghost.attempts = <<1, 0>> /\ ghost.cert_verified # "true")
    /\ op \in {"pubkey", "retrieve"} =>
          /\ Count("_ekmf_perform_request") <= 1
          /\ (pc = "returned" /\ resp.net = "ssl_cacert") =>
                rc = -EIO /\ response_obj = NoObj

\* the first transfer failed with a CA verification error, the second
\* succeeded without verification, and the CA bundle was written
C30_Witness ==
    /\ CertChainTransferred
    /\ ghost.attempts = <<1, 0>>
    /\ arg.first = CURLE_SSL_CACERT
    /\ rc = 0
    /\ ghost.cert_verified = "false"
    /\ "ca_bundle_pem" \in ghost.files

----------------------------------------------------------------------------
(* The signing context of the identity key (FnSpec).                       *)

\* the algorithm table of _ekmf_build_signature allows the digest for a key
\* of this type and curve
TableAllows(pkey_id, curve_nid, digest_nid) ==
    LET alg == SelectAlgorithm(pkey_id, curve_nid, digest_nid)
    IN  alg.rc = 0 /\ alg.digest_nid = digest_nid

\* a certificate request or a self-signed certificate was asked for and the
\* call has returned
IssueReturned ==
    pc = "returned" /\ op \in {"ekmf_generate_csr", "ekmf_generate_ss_cert"}

\* C31: the signing context helper rejects a digest that the algorithm
\* table does not allow for the key's type and curve: it returns an error
\* and no signing context, for the signature of a request as well as for a
\* certificate request and a self-signed certificate.
C31_DigestValidated ==
    /\ (FnReturned("_ekmf_build_signature") /\ rc = 0) =>
          TableAllows(PkeyId(arg.pkey_type, arg.use_rsa_pss),
                      arg.curve_nid, ghost.alg.digest_nid)
    /\ (/\ IssueReturned
        /\ ghost.reached
        /\ arg.digest_nid # 0
        /\ ~TableAllows(PkeyId(arg.pkey_type, arg.pss), arg.curve_nid,
                        arg.digest_nid)) =>
          rc # 0 /\ ~ghost.ctx

\* C37: on every path through _ekmf_build_signature, ekmf_generate_csr and
\* ekmf_generate_ss_cert the secure-key PKEY method is set up once at most,
\* and cleaned up exactly once when it was set up: never twice, never zero
\* times, and never without a setup.
C37_SetupCleanupBalanced ==
    ((pc = "returned" /\ op = "_ekmf_build_signature") \/ IssueReturned) =>
        /\ Count("setup_secure_key_pkey_method") <= 1
        /\ Count("cleanup_secure_key_pkey_method") =
              Count("setup_secure_key_pkey_method")
        /\ Before("setup_secure_key_pkey_method",
                  "cleanup_secure_key_pkey_method")

\* the context setup failed after the method was set up, and the helper
\* cleaned up
C37_Witness ==
    /\ IssueReturned
    /\ arg.fail_at = "sign_init"
    /\ rc = -EIO
    /\ Count("setup_secure_key_pkey_method") = 1
    /\ Count("cleanup_secure_key_pkey_method") = 1

----------------------------------------------------------------------------
(* Re-encipherment of the identity key (FnSpec).                           *)

\* the identity key of the file on entry, re-enciphered
Reenciphered ==
    ReencipherKey(arg.files[arg.identity_secure_key], arg.to_new,
                  arg.mk_loaded).blob

\* C32 as stated: the re-enciphered key is written to exactly one file, to
\* reenc_secure_key when it is not NULL, and the original identity key file
\* is then left unchanged, otherwise in place over identity_secure_key; when
\* reading the key or the re-encipher step fails, no file is written.
C32_OriginalUnchanged ==
    FnReturned("ekmf_reencipher_identity_key") =>
        /\ (rc = 0 /\ arg.reenc_secure_key # "NULL") =>
              /\ ghost.files[arg.reenc_secure_key] = Reenciphered
              /\ ghost.files[arg.identity_secure_key] =
                    arg.files[arg.identity_secure_key]
        /\ (rc = 0 /\ arg.reenc_secure_key = "NULL") =>
              /\ ghost.files[arg.identity_secure_key] = Reenciphered
              /\ ghost.files["reenc.key"] = arg.files["reenc.key"]
        /\ ~InTrace("write_key_blob") => rc # 0 /\ ghost.files = arg.files

\* C32, amended: the re-enciphered key is written to exactly one file, to
\* reenc_secure_key when it is not NULL, otherwise in place over
\* identity_secure_key, and every file of another name is left unchanged:
\* the original identity key file is left unchanged when reenc_secure_key
\* names another file, and is overwritten when reenc_secure_key names the
\* identity key file itself.  When reading the key or the re-encipher step
\* fails, no file is written.
C32_OneFileWritten ==
    FnReturned("ekmf_reencipher_identity_key") =>
        LET out_file == IF arg.reenc_secure_key # "NULL"
                        THEN arg.reenc_secure_key
                        ELSE arg.identity_secure_key
        IN  /\ rc = 0 =>
                  /\ ghost.files[out_file] = Reenciphered
                  /\ \A f \in KeyFiles \ {out_file} :
                        ghost.files[f] = arg.files[f]
            /\ ~InTrace("write_key_blob") =>
                  rc # 0 /\ ghost.files = arg.files

\* the key was written to another file and the original was left alone
C32_Witness ==
    /\ FnReturned("ekmf_reencipher_identity_key")
    /\ rc = 0
    /\ arg.reenc_secure_key = "reenc.key"
    /\ arg.files["reenc.key"] # NoFile
    /\ ghost.files["reenc.key"] = KeyBlob("id", "new")
    /\ ghost.files["identity.key"] = KeyBlob("id", "cur")

----------------------------------------------------------------------------
(* The party info and the request it is sent in (Spec).                    *)

\* C33: the party info sent in a request binds the values of that request:
\* its digest input is the key id placed in additionalInfo.requestedKey
\* followed by the timestamp string placed in additionalInfo.timestamp, and
\* the timestamp is generated once per call.
C33_PartyInfoBindsRequest ==
    op = "retrieve" =>
        /\ Count("get_json_timestamp") <= 1
        /\ ghost.sent # NoObj =>
              LET addl == Get(ghost.sent, "additionalInfo")
                  digest == Bytes(SHA256_DIGEST_LENGTH,
                                  <<"sha256", Get(addl, "requestedKey").s,
                                    Get(addl, "timestamp").s>>)
              IN  /\ Count("get_json_timestamp") = 1
                  /\ locals.req_party_info = digest
                  /\ Get(Get(ghost.sent, "originator"), "partyInfo")
                        = JStr(Base64Url(digest))

\* C33 witness: a request was sent at time 2 and the call has returned
C33_Witness ==
    /\ RetrieveReturned
    /\ now = 2
    /\ ghost.sent # NoObj
    /\ Get(Get(ghost.sent, "additionalInfo"), "timestamp") = JStr("2")
    /\ InTrace("_ekmf_perform_request")

----------------------------------------------------------------------------
(* The error message of ekmf_retrieve_key and ekmf_get_public_key (Spec).  *)

\* C34: on every return of ekmf_retrieve_key and ekmf_get_public_key with a
\* non-NULL error_msg argument, *error_msg is NULL or a message allocated
\* by this call; it never keeps the (possibly uninitialized) value the
\* caller passed in, also when the call fails before the transport request.
C34_ErrorMsgInitialised ==
    (/\ pc = "returned"
     /\ op \in {"retrieve", "pubkey"}
     /\ arg.error_msg = MsgGarbage) =>
        error_msg # MsgGarbage

----------------------------------------------------------------------------
(* The return code and the error message argument (Spec).                  *)

\* the code with which ekmf_retrieve_key leaves the transport exchange and
\* the status switch when *error_msg is em on entry and the server's answer
\* is r; 0 when the call goes on to the response
ExchangeRc(em, r) ==
    LET p == PerformRequest(em, r.net, r.status, r.body)
    IN  IF p.rc > 0 THEN -EIO
        ELSE IF p.rc # 0 THEN p.rc
        ELSE StatusToRc(p.status_code)

\* C35: the return code of ekmf_retrieve_key does not depend on whether the
\* caller asked for an error message: the call that differs only in
\* error_msg being NULL or not and sees the same response returns the same
\* code.
C35_RcIndependentOfErrorMsg ==
    (RetrieveReturned /\ InTrace("_ekmf_perform_request")) =>
        LET twin == ExchangeRc(IF arg.error_msg = MsgNone THEN MsgNull
                               ELSE MsgNone, resp)
        IN  IF twin # 0 THEN rc = twin
            ELSE ExchangeRc(arg.error_msg, resp) = 0

----------------------------------------------------------------------------
(* The valid output of a failed token check (Spec).                        *)

\* C36: ekmf_check_login_token never reports valid = true together with an
\* error: on every return with rc != 0 the valid output is false or is
\* what it was on entry.
C36_NoValidWithError ==
    (CheckReturned /\ rc # 0) => (valid = FALSE \/ valid = arg.valid)

----------------------------------------------------------------------------
(* The server's public key of ekmf_get_server_cert_chain (Spec).           *)

\* C38: ekmf_get_server_cert_chain returns 0 only if every requested output
\* was produced: when server_pubkey_pem is requested and the server sent a
\* certificate, a return of 0 means that the public key was extracted and
\* written; a failure to parse the certificate, to open or to write the
\* file is returned as a nonzero error.
C38_PubkeyFailurePropagated ==
    (/\ pc = "returned"
     /\ op = "certchain"
     /\ arg.pubkey # "none"
     /\ arg.ncerts >= 1
     /\ rc = 0) =>
        ghost.pubkey_file = "written"

----------------------------------------------------------------------------
(* The server public key file of ekmf_get_public_key (Spec).               *)

\* C39: ekmf_get_public_key writes the server public key file only after a
\* valid token check and a transport exchange with status 200 whose body is
\* a JSON object that was converted to a public key; after an exchange with
\* status 401 it returns -EACCES, with any other status but 200 -EIO, and a
\* call that fails before the conversion does not write the file.
C39_PubkeyWrittenOnlyAfter200 ==
    (pc = "returned" /\ op = "pubkey") =>
        /\ InTrace("write_public_key") =>
              /\ valid
              /\ resp.net = "ok"
              /\ resp.status = 200
              /\ IsType(resp.body, "object")
              /\ Before("ekmf_check_login_token", "_ekmf_perform_request")
              /\ Before("_ekmf_perform_request", "json_web_key_as_pkey")
              /\ Before("json_web_key_as_pkey", "write_public_key")
        /\ (resp.net = "ok" /\ resp.status = 401) => rc = -EACCES
        /\ (resp.net = "ok" /\ resp.status \notin {200, 401}) => rc = -EIO
        /\ rc = 0 => InTrace("write_public_key")

====
